---- MODULE Spec2Model ----
(***************************************************************************)
(* Palia watering tracker: the in-game calendar computed by App.tsx, the   *)
(* garden save-code decoder of plannerService.ts and the unified tracking  *)
(* store of useUnifiedGardenStore.ts, as state machines.                   *)
(*                                                                         *)
(* Strings the code parses are sequences of one-character strings.         *)
(* Instants are epoch milliseconds (Date.now()).  The code computes with   *)
(* IEEE doubles; every quantity below is the same quantity scaled to       *)
(* milliseconds so that it is an integer, and floating-point rounding is   *)
(* not modelled.                                                           *)
(***************************************************************************)
EXTENDS Integers, Sequences, FiniteSets, TLC

VARIABLES
    currentTime,   \* App.tsx:66   useState(Date.now())
    timeData,      \* App.tsx:128  useMemo over currentTime
    input,         \* the string handed to parseGridData
    parseResult,   \* what parseGridData returned or threw
    gridTiles,     \* the tile grid handed to generateCropSummary
    cropSummary,   \* what generateCropSummary returned
    trackedCrops,        \* useUnifiedGardenStore state
    dailyWateringState,  \* useUnifiedGardenStore state
    isInitialized,       \* useUnifiedGardenStore state
    isLoading,           \* useUnifiedGardenStore state
    lastError,           \* useUnifiedGardenStore state
    unifiedStorage,      \* localStorage['paliaUnifiedGarden']
    layoutStorage,       \* localStorage['palia_watering_tracker_layouts_data']
    pending,             \* saveAndLoadLayout calls suspended at an await
    lastResetCycle,      \* history: the cycle number in which resetDailyWatering last ran
    lastResult,          \* what the last LayoutService call returned
    exportedJson,        \* the text exportLayouts() returned, kept by the caller
    legacyStorage,       \* localStorage['paliaTrackedCrops'], ['paliaWateringState']
    migrationBanner,     \* MigrationBanner: its status effect and showBanner
    cycleWateringState   \* App.tsx:68, mirrored in localStorage['paliaCycleWateringState']

clockVars == <<currentTime, timeData>>
parseVars == <<input, parseResult>>
summaryVars == <<gridTiles, cropSummary>>
storeVars == <<trackedCrops, dailyWateringState, isInitialized, isLoading, lastError,
               unifiedStorage, layoutStorage, pending, lastResetCycle>>
serviceVars == <<lastResult, exportedJson>>
migrationVars == <<legacyStorage, migrationBanner>>
historyVars == <<cycleWateringState>>
otherVars == <<serviceVars, migrationVars, historyVars>>
vars == <<clockVars, parseVars, summaryVars, storeVars, otherVars>>

(***************************************************************************)
(* JavaScript arithmetic                                                   *)
(***************************************************************************)

\* a % b of JavaScript for b > 0: the remainder has the sign of the dividend.
JSRem(a, b) == IF a >= 0 THEN a % b ELSE 0 - ((0 - a) % b)

\* Math.floor(a / b) for b > 0.
Floor(a, b) == a \div b

(***************************************************************************)
(* Calendar engine: App.tsx timeData                                       *)
(***************************************************************************)

\* 60 * 60 * (8 + 3 * 24) seconds, in milliseconds.
PST_UTC_SUNDAY_OFFSET == 60 * 60 * (8 + 3 * 24) * 1000

HourMs == 3600 * 1000
DayMs  == 24 * HourMs
WeekMs == 7 * DayMs

\* currentTime / 1000 - PST_UTC_SUNDAY_OFFSET, in milliseconds.
RealTimePST(t) == t - PST_UTC_SUNDAY_OFFSET

\* (realTimePST * 24) % (24 * 60 * 60), in milliseconds of in-game time.
\* JS % satisfies (24 * a) % (24 * b) = 24 * (a % b), which keeps the
\* product inside the integers of the model checker.
PalianTimeOfDay(t) == 24 * JSRem(RealTimePST(t), HourMs)

PalianMinutes(t) == Floor(PalianTimeOfDay(t), 60 * 1000)

Hours(t) == Floor(PalianMinutes(t), 60)

Minutes(t) == JSRem(PalianMinutes(t), 60)

\* (realTimePST - 21 * 3600) % (7 * 24 * 3600), in milliseconds.
TimeSincePSTWeek(t) == JSRem(RealTimePST(t) - 21 * HourMs, WeekMs)

\* Math.floor(palianCycleThisWeek / 24), palianCycleThisWeek = timeSincePSTWeek / 3600.
PalianDayThisWeek(t) == Floor(TimeSincePSTWeek(t), DayMs)

\* Math.floor(palianCycleThisWeek) % 24.
PalianCycleThisDay(t) == JSRem(Floor(TimeSincePSTWeek(t), HourMs), 24)

\* `Day ${d + 1} Cycle ${(c + 1).toString().padStart(2, "0")}`: the label is
\* the pair of numbers it prints (two labels are equal exactly when both
\* numbers are).
DayText(t) == <<PalianDayThisWeek(t) + 1, PalianCycleThisDay(t) + 1>>

WeekNumber(t) == Floor(RealTimePST(t) - 21 * HourMs, WeekMs)

TotalCycles(t) == Floor(RealTimePST(t), HourMs)

\* getPartOfDay with its first test written hours <= 3.
GetPartOfDayLateNight(hours) ==
    IF hours >= 21 \/ hours <= 3 THEN "Night"
    ELSE IF hours >= 18 THEN "Evening"
    ELSE IF hours >= 6 THEN "Day"
    ELSE "Morning"

GetPartOfDay(hours) ==
    IF hours >= 21 \/ hours < 3 THEN "Night"
    ELSE IF hours >= 18 THEN "Evening"
    ELSE IF hours >= 6 THEN "Day"
    ELSE "Morning"

\* The value of the useMemo at App.tsx:128 (the dial rotation, a pure
\* presentation value, is left out).
TimeDataOf(t) ==
    [ palianTimeOfDay |-> PalianTimeOfDay(t),
      hours           |-> Hours(t),
      minutes         |-> Minutes(t),
      partOfDay       |-> GetPartOfDay(Hours(t)),
      dayText         |-> DayText(t),
      dayOfWeek       |-> PalianDayThisWeek(t),
      cycleOfDay      |-> PalianCycleThisDay(t),
      weekNumber      |-> WeekNumber(t),
      totalCycles     |-> TotalCycles(t) ]


(***************************************************************************)
(* Strings: String.prototype.split, startsWith, match                      *)
(***************************************************************************)

\* s.split(sep) for a one-character separator: the pieces between
\* consecutive separators; never empty, "" gives [""].
Split(s, sep) ==
    LET seps    == { i \in 1..Len(s) : s[i] = sep }
        n       == Cardinality(seps)
        \* position of the k-th separator; 0 and Len(s) + 1 close the ends
        pos(k)  == IF k = 0 THEN 0
                   ELSE IF k = n + 1 THEN Len(s) + 1
                   ELSE CHOOSE i \in seps : Cardinality({ j \in seps : j < i }) = k - 1
    IN  [k \in 1..(n + 1) |-> SubSeq(s, pos(k - 1) + 1, pos(k) - 1)]

\* s.startsWith(prefix)
StartsWith(s, prefix) ==
    /\ Len(s) >= Len(prefix)
    /\ SubSeq(s, 1, Len(prefix)) = prefix

RECURSIVE JoinWith(_, _)
\* parts.join(sep)
JoinWith(parts, sep) ==
    IF Len(parts) = 0 THEN <<>>
    ELSE IF Len(parts) = 1 THEN parts[1]
    ELSE parts[1] \o <<sep>> \o JoinWith(Tail(parts), sep)

UpperLetters ==
    { "A", "B", "C", "D", "E", "F", "G", "H", "I", "J", "K", "L", "M",
      "N", "O", "P", "Q", "R", "S", "T", "U", "V", "W", "X", "Y", "Z" }

\* [A-Z]
IsUpper(c) == c \in UpperLetters

RECURSIVE TokenEndNoFertiliser(_, _)
\* [^A-Z]* from position j: a token that stops before '.' and a capital.
TokenEndNoFertiliser(s, j) ==
    IF j > Len(s) THEN j
    ELSE IF s[j] = "." /\ j + 1 <= Len(s) /\ IsUpper(s[j + 1]) THEN j
    ELSE IF ~IsUpper(s[j]) THEN TokenEndNoFertiliser(s, j + 1)
    ELSE j

RECURSIVE TokenEnd(_, _)
\* (?:\.[A-Z]|[^A-Z])* from position j: the first position it does not consume.
TokenEnd(s, j) ==
    IF j > Len(s) THEN j
    ELSE IF s[j] = "." /\ j + 1 <= Len(s) /\ IsUpper(s[j + 1]) THEN TokenEnd(s, j + 2)
    ELSE IF ~IsUpper(s[j]) THEN TokenEnd(s, j + 1)
    ELSE j

RECURSIVE MatchFrom(_, _, _)
MatchFrom(s, i, acc) ==
    IF i > Len(s) THEN acc
    ELSE IF IsUpper(s[i])
         THEN LET e == TokenEnd(s, i + 1)
              IN  MatchFrom(s, e, Append(acc, SubSeq(s, i, e - 1)))
         ELSE MatchFrom(s, i + 1, acc)

\* plotCropString.match(/[A-Z](?:\.[A-Z]|[^A-Z])*/g); null is the empty list
\* (the code only tests it for truth and for its length).
MatchCropCodes(plotCropString) == MatchFrom(plotCropString, 1, <<>>)

(***************************************************************************)
(* Code tables of plannerService.ts                                        *)
(***************************************************************************)

CROP_MAPPINGS ==
    ( <<"N">> :> "None" @@ <<"T">> :> "Tomato" @@ <<"P">> :> "Potato"
      @@ <<"R">> :> "Rice" @@ <<"W">> :> "Wheat" @@ <<"C">> :> "Carrot"
      @@ <<"O">> :> "Onion" @@ <<"C", "o">> :> "Cotton"
      @@ <<"B">> :> "Blueberry" @@ <<"A">> :> "Apple"
      @@ <<"C", "r">> :> "Corn" @@ <<"S">> :> "Spicy Pepper"
      @@ <<"C", "b">> :> "Napa Cabbage" @@ <<"B", "k">> :> "Bok Choy"
      @@ <<"P", "m">> :> "Rockhopper Pumpkin"
      @@ <<"B", "t">> :> "Batterfly Bean" )

FERTILIZER_MAPPINGS ==
    ( <<"N">> :> "None" @@ <<"S">> :> "Speedy Gro" @@ <<"Q">> :> "Quality Up"
      @@ <<"W">> :> "Weed Block" @@ <<"H">> :> "Harvest Boost"
      @@ <<"Y">> :> "Hydrate Pro" )

SingleCrops ==
    { "Tomato", "Potato", "Rice", "Wheat", "Carrot", "Onion", "Cotton",
      "Corn", "Napa Cabbage", "Bok Choy" }

BushCrops == { "Blueberry", "Spicy Pepper", "Batterfly Bean", "Rockhopper Pumpkin" }

TreeCrops == { "Apple" }

CropSizeAllSingle(cropName) == [size |-> "single", tiles |-> 1]

\* CROP_SIZES[cropName], for the names the table has.
CropSize(cropName) ==
    IF cropName \in SingleCrops THEN [size |-> "single", tiles |-> 1]
    ELSE IF cropName \in BushCrops THEN [size |-> "bush", tiles |-> 4]
    ELSE [size |-> "tree", tiles |-> 9]

\* The keys of CROP_SIZES.
SizedCrops == SingleCrops \cup BushCrops \cup TreeCrops

(***************************************************************************)
(* generateCropSummary                                                     *)
(***************************************************************************)

\* null (cropType, fertilizerType)
Null == "<null>"

CountsInactiveToo(tile) ==
    /\ tile.cropType # Null
    /\ tile.cropType # "None"

\* tile.cropType && tile.cropType !== 'None' && tile.isActive
CountsAsCrop(tile) ==
    /\ tile.cropType # Null
    /\ tile.cropType # "None"
    /\ tile.isActive

RECURSIVE CountRow(_, _)
\* for (const tile of row): tileCounts after the tiles of one row.
CountRow(row, counts) ==
    IF Len(row) = 0 THEN counts
    ELSE LET tile == Head(row)
             c    == tile.cropType
         IN  IF ~CountsAsCrop(tile) THEN CountRow(Tail(row), counts)
             ELSE IF c \notin DOMAIN counts
             THEN \* tileCounts[tile.cropType] = { total: 0, needingWater: 0 }
                  CountRow(row, counts @@ (c :> [total |-> 0, needingWater |-> 0]))
             ELSE CountRow(Tail(row),
                      [counts EXCEPT
                          ![c].total = @ + 1,
                          ![c].needingWater = @ + (IF tile.needsWater THEN 1 ELSE 0)])

RECURSIVE TileCounts(_, _)
\* for (const row of tiles): the tileCounts object, crop name ->
\* {total, needingWater}.
TileCounts(rows, counts) ==
    IF Len(rows) = 0 THEN counts
    ELSE TileCounts(Tail(rows), CountRow(Head(rows), counts))

RECURSIVE SumOver(_, _)
SumOver(f, keys) ==
    IF keys = {} THEN 0
    ELSE LET k == CHOOSE x \in keys : TRUE
         IN  f[k] + SumOver(f, keys \ {k})

EmptyMap == << >>

GenerateCropSummary(tiles) ==
    LET tileCounts == TileCounts(tiles, EmptyMap)
        plantCount(c) == Floor(tileCounts[c].total, CropSize(c).tiles)
        kept == { c \in DOMAIN tileCounts : c \in SizedCrops /\ plantCount(c) > 0 }
        cropBreakdown ==
            [c \in kept |->
                [ total         |-> plantCount(c),
                  needingWater  |-> Floor(tileCounts[c].needingWater, CropSize(c).tiles),
                  size          |-> CropSize(c).size,
                  tilesPerPlant |-> CropSize(c).tiles ]]
        totalPlants == SumOver([c \in kept |-> cropBreakdown[c].total], kept)
        plantsNeedingWater ==
            SumOver([c \in kept |-> cropBreakdown[c].needingWater], kept)
    IN  [ totalPlants        |-> totalPlants,
          plantsNeedingWater |-> plantsNeedingWater,
          cropBreakdown      |-> cropBreakdown,
          \* Math.round(percentage * 100) / 100, in hundredths of a percent
          wateringPercentage |->
              IF totalPlants > 0
              THEN Floor(2 * 10000 * plantsNeedingWater + totalPlants, 2 * totalPlants)
              ELSE 0 ]

(***************************************************************************)
(* parseGridData, for a direct save code (plannerService.ts:299-453)       *)
(***************************************************************************)

\* uuidv4(): an identifier that differs from call to call and from run to
\* run; seed is the run's randomness, n the place of the call.
Uuid(seed, n) == <<seed, n>>

NoCropId == <<>>

Failure(name, message) == [kind |-> name, message |-> message]

\* const [cropCode, fertiliserCode] = cropCodeWithFert.split('.')
CropCodeOf(token) == Split(token, ".")[1]

\* undefined and '' are both false in the test of the fertiliser code.
FertiliserCodeOf(token) ==
    LET parts == Split(token, ".") IN IF Len(parts) >= 2 THEN parts[2] ELSE <<>>

\* CROP_MAPPINGS[cropCode] && CROP_MAPPINGS[cropCode] !== 'None'
IsPlantedCode(cropCode) ==
    /\ cropCode \in DOMAIN CROP_MAPPINGS
    /\ CROP_MAPPINGS[cropCode] # "None"

\* The body of the innermost loop (plannerService.ts:396-418) on one tile.
DecodeTile(tile, token, seed, n) ==
    LET cropCode == CropCodeOf(token)
        fert     == FertiliserCodeOf(token)
        planted  == IsPlantedCode(cropCode)
        withCrop ==
            IF planted
            THEN [tile EXCEPT
                    !.cropType = CROP_MAPPINGS[cropCode],
                    !.cropId = IF CropSize(CROP_MAPPINGS[cropCode]).size # "single"
                               THEN Uuid(seed, n) ELSE tile.cropId]
            ELSE tile
    IN  IF /\ fert # <<>>
           /\ fert \in DOMAIN FERTILIZER_MAPPINGS
           /\ FERTILIZER_MAPPINGS[fert] # "None"
        THEN [withCrop EXCEPT !.fertilizerType = FERTILIZER_MAPPINGS[fert]]
        ELSE withCrop

\* The plot written column by column (pi and pj exchanged in the index).
PlacePlotByColumns(tiles, plotRow, plotCol, cropCodes, seed) ==
    [i \in 1..Len(tiles) |->
        [j \in 1..Len(tiles[i]) |->
            LET pi == (i - 1) - plotRow * 3
                pj == (j - 1) - plotCol * 3
            IN  IF pi \in 0..2 /\ pj \in 0..2
                THEN DecodeTile(tiles[i][j], cropCodes[pj * 3 + pi + 1], seed,
                                (i - 1) * Len(tiles[i]) + (j - 1))
                ELSE tiles[i][j]]]

\* One plot with 9 crop codes: its 3x3 tiles, row-major (lines 389-421).
PlacePlot(tiles, plotRow, plotCol, cropCodes, seed) ==
    [i \in 1..Len(tiles) |->
        [j \in 1..Len(tiles[i]) |->
            LET pi == (i - 1) - plotRow * 3
                pj == (j - 1) - plotCol * 3
            IN  IF pi \in 0..2 /\ pj \in 0..2
                THEN DecodeTile(tiles[i][j], cropCodes[pi * 3 + pj + 1], seed,
                                (i - 1) * Len(tiles[i]) + (j - 1))
                ELSE tiles[i][j]]]

RECURSIVE ProcessPlots(_, _, _, _, _, _, _)
\* The two loops over plots (lines 378-428); p counts the plots visited,
\* row-major, plotIndex the crop strings consumed.
ProcessPlots(p, plotIndex, tiles, activePlots, plotColumns, cropRows, seed) ==
    IF p >= Len(activePlots) * plotColumns THEN tiles
    ELSE LET plotRow == p \div plotColumns
             plotCol == p % plotColumns
         IN  IF activePlots[plotRow + 1][plotCol + 1] /\ plotIndex < Len(cropRows)
             THEN LET cropCodes == MatchCropCodes(cropRows[plotIndex + 1])
                  IN  ProcessPlots(p + 1, plotIndex + 1,
                          IF Len(cropCodes) = 9
                          THEN PlacePlot(tiles, plotRow, plotCol, cropCodes, seed)
                          ELSE tiles,
                          activePlots, plotColumns, cropRows, seed)
             ELSE ProcessPlots(p + 1, plotIndex, tiles, activePlots, plotColumns,
                               cropRows, seed)

\* Lines 337-375: the active plots and the empty tile grid.
ActivePlotsOf(plotDimensions, plotColumns) ==
    [i \in 1..Len(plotDimensions) |->
        [j \in 1..plotColumns |->
            j <= Len(plotDimensions[i]) /\ plotDimensions[i][j] = "1"]]

EmptyTiles(activePlots, plotRows, plotColumns) ==
    [i \in 1..(plotRows * 3) |->
        [j \in 1..(plotColumns * 3) |->
            [ row            |-> i - 1,
              col            |-> j - 1,
              cropType       |-> Null,
              fertilizerType |-> Null,
              needsWater     |-> FALSE,
              cropId         |-> NoCropId,
              isActive       |-> activePlots[((i - 1) \div 3) + 1][((j - 1) \div 3) + 1] ]]]

ParseGridData(saveCode, seed) ==
    LET sections == Split(saveCode, "_") IN
    IF Len(sections) < 3
    THEN Failure("Error", "Invalid save code format - insufficient sections.")
    ELSE
    LET version       == sections[1]
        dimensionInfo == sections[2]
        cropInfo      == sections[3]
        settingsInfo  == IF Len(sections) >= 4 THEN sections[4] ELSE <<>>
    IN
    IF ~StartsWith(version, <<"v">>)
    THEN Failure("Error", "Invalid save code format - missing version prefix.")
    ELSE
    LET plotDimensions == Tail(Split(dimensionInfo, "-")) IN
    IF Len(plotDimensions) = 0
    THEN \* plotDimensions[0].length with plotDimensions[0] undefined
         Failure("TypeError", "Cannot read properties of undefined (reading 'length')")
    ELSE
    LET plotRows    == Len(plotDimensions)
        plotColumns == Len(plotDimensions[1])
        activePlots == ActivePlotsOf(plotDimensions, plotColumns)
    IN
    IF ~StartsWith(cropInfo, <<"C", "R", "-">>)
    THEN Failure("Error", "Invalid save code format - crops section should start with CR-.")
    ELSE
    LET cropRows == Split(SubSeq(cropInfo, 4, Len(cropInfo)), "-")
        tiles    == ProcessPlots(0, 0, EmptyTiles(activePlots, plotRows, plotColumns),
                                 activePlots, plotColumns, cropRows, seed)
    IN  [ kind |-> "ok",
          data |-> [ dimensions  |-> [rows |-> plotRows * 3, columns |-> plotColumns * 3],
                     tiles       |-> tiles,
                     activePlots |-> activePlots,
                     cropSummary |-> GenerateCropSummary(tiles),
                     saveCode    |-> saveCode,
                     version     |-> version,
                     settings    |-> settingsInfo ] ]

(***************************************************************************)
(* Clock specification: the 250 ms interval samples the wall clock         *)
(***************************************************************************)

\* Sampled instants: NumSamples steps of StepMs from StartMs, which lies
\* before the epoch so that the shifted time is negative on the first ones.
NumSamples == 200
StepMs     == 2469 * 2500 + 1
StartMs    == 0 - 120 * HourMs

\* Instants around the zero of the shifted time and of the week origin.
EdgeInstants ==
    { PST_UTC_SUNDAY_OFFSET + d : d \in {0 - 1000 * 1000, 0 - 1, 0, 1, 2500} }
    \cup { PST_UTC_SUNDAY_OFFSET + 21 * HourMs + d : d \in {0 - 1000 * 1000, 0, 1} }

Instants == { StartMs + k * StepMs : k \in 0..NumSamples } \cup EdgeInstants

NotCalled == [kind |-> "none"]

\* DEFAULT_DAILY_WATERING_STATE; lastResetDay '' is the empty label.
DEFAULT_DAILY_WATERING_STATE == [lastResetDay |-> <<>>, resetTime |-> 6]

NoItem == [kind |-> "none"]
NoError == "<null>"
NeverReset == 0 - 1000000

\* The store as create() builds it (useUnifiedGardenStore.ts:89-94).
FreshStore ==
    /\ trackedCrops = <<>>
    /\ dailyWateringState = DEFAULT_DAILY_WATERING_STATE
    /\ isInitialized = FALSE
    /\ isLoading = FALSE
    /\ lastError = NoError

\* The cycle history of a store used without the App component around it.
HistoryOff == [kind |-> "off"]

\* MigrationBanner before its status effect has run.
BannerMounting == [checked |-> FALSE, showBanner |-> FALSE]

OtherIdle ==
    /\ lastResult = NotCalled
    /\ exportedJson = NoItem
    /\ legacyStorage = NoItem
    /\ migrationBanner = BannerMounting
    /\ cycleWateringState = HistoryOff

StoreIdle ==
    /\ FreshStore
    /\ unifiedStorage = NoItem
    /\ layoutStorage = <<>>
    /\ pending = <<>>
    /\ lastResetCycle = NeverReset
    /\ OtherIdle

ParseIdle == input = <<>> /\ parseResult = NotCalled
SummaryIdle == gridTiles = <<>> /\ cropSummary = NotCalled

ClockInit ==
    /\ currentTime \in Instants
    /\ timeData = TimeDataOf(currentTime)
    /\ ParseIdle /\ SummaryIdle /\ StoreIdle

\* setInterval(() => setCurrentTime(Date.now()), 250) and the useMemo.
SetCurrentTime ==
    /\ \E t \in Instants :
          /\ t > currentTime
          /\ currentTime' = t
    /\ timeData' = TimeDataOf(currentTime')
    /\ UNCHANGED <<parseVars, summaryVars, storeVars, otherVars>>

ClockNext == SetCurrentTime

SpecClock == ClockInit /\ [][ClockNext]_vars

\* C1: for every instant, negative shifted times included, the clock's
\* hour is in 0..23 and its minute in 0..59.
C1_HourMinuteInRange ==
    /\ timeData.hours \in 0..23
    /\ timeData.minutes \in 0..59

\* C2: one real hour later the cycle number is one more and the in-game
\* time of day (hence hour, minute, period) is the same.
C2_HourAdvance ==
    LET later == TimeDataOf(currentTime + HourMs) IN
    /\ later.totalCycles = timeData.totalCycles + 1
    /\ later.palianTimeOfDay = timeData.palianTimeOfDay
    /\ later.hours = timeData.hours
    /\ later.minutes = timeData.minutes
    /\ later.partOfDay = timeData.partOfDay

\* C3: one real week later the week number is one more and the day of week
\* and cycle of day (the "Day D Cycle CC" label) are the same.
C3_WeekAdvance ==
    LET later == TimeDataOf(currentTime + WeekMs) IN
    /\ later.weekNumber = timeData.weekNumber + 1
    /\ later.dayOfWeek = timeData.dayOfWeek
    /\ later.cycleOfDay = timeData.cycleOfDay
    /\ later.dayText = timeData.dayText


(***************************************************************************)
(* Decoder specification: parseGridData applied to save codes              *)
(***************************************************************************)

Rep(c, n) == [i \in 1..n |-> c]

\* 'v0.4_D-111-111-111_CR-TTTTTTTTT-PPPPPPPPP-AAAAAAAAA-NNNNNNNNN-...' (six N plots)
SAMPLE_SAVE_CODE ==
    JoinWith(<< <<"v", "0", ".", "4">>,
                <<"D", "-", "1", "1", "1", "-", "1", "1", "1", "-", "1", "1", "1">>,
                <<"C", "R", "-">> \o
                JoinWith(<<Rep("T", 9), Rep("P", 9), Rep("A", 9)>> \o
                         [k \in 1..6 |-> Rep("N", 9)], "-") >>, "_")

\* 'garbage'
Garbage == <<"g", "a", "r", "b", "a", "g", "e">>

\* Plot entries: full plots, a plot of 8 tiles, a plot of 10 tiles, a plot
\* with the unknown code Z, plots with two-letter codes and fertilisers.
PlotStrings ==
    { Rep("T", 9), Rep("A", 9), Rep("N", 9),
      Rep("T", 8),
      Rep("P", 10),
      Rep("B", 4) \o Rep("T", 5),
      <<"Z">> \o Rep("T", 8),
      <<"T", ".", "S", "C", "o", "C", "r", ".", "Q", "Z", ".", "H",
        "B", "B", "B", "B", ".", "N", "N", ".", "Y">> }

Versions == { <<"v", "0", ".", "4">>, <<"0", ".", "4">> }

\* Dimension blocks: 1x1, 1x2, a 2x2 with two inactive plots, and one
\* without plot rows.
DimensionBlocks ==
    { <<"D", "-", "1">>, <<"D", "-", "1", "1">>,
      <<"D", "-", "1", "0", "-", "0", "1">>, <<"D">> }

CropPrefixes == { <<"C", "R", "-">>, <<"C", "-">> }

\* The most plot entries a generated crop block has.
MaxPlots == 2

RECURSIVE SeqsUpTo(_, _)
\* The non-empty sequences over S of length at most n.
SeqsUpTo(S, n) ==
    IF n = 0 THEN {}
    ELSE { <<x>> : x \in S }
         \cup { Append(q, x) : q \in SeqsUpTo(S, n - 1), x \in S }

SaveCodes ==
    { JoinWith(<<v, d, c \o JoinWith(plots, "-")>>, "_") :
        v \in Versions, d \in DimensionBlocks, c \in CropPrefixes,
        plots \in SeqsUpTo(PlotStrings, MaxPlots) }
    \cup { JoinWith(<<v, d, c \o JoinWith(plots, "-"), <<"S", "1">> >>, "_") :
        v \in {<<"v", "0", ".", "4">>}, d \in {<<"D", "-", "1">>},
        c \in {<<"C", "R", "-">>}, plots \in SeqsUpTo(PlotStrings, 1) }
    \cup { SAMPLE_SAVE_CODE, Garbage, <<>> }

\* The run's randomness behind uuidv4().
MaxSeed == 2
Seeds == 1..MaxSeed

ClockIdle == currentTime = 0 /\ timeData = TimeDataOf(0)

ParseInit ==
    /\ input \in SaveCodes
    /\ parseResult = NotCalled
    /\ ClockIdle /\ SummaryIdle /\ StoreIdle

\* await parseGridData(input), input a direct save code.
CallParseGridData ==
    /\ parseResult = NotCalled
    /\ ~StartsWith(input, <<"h", "t", "t", "p">>)
    /\ \E seed \in Seeds : parseResult' = ParseGridData(input, seed)
    /\ UNCHANGED <<input, clockVars, summaryVars, storeVars, otherVars>>

ParseNext == CallParseGridData

SpecParse == ParseInit /\ [][ParseNext]_vars


\* The stages of a save code that parseGridData checks before the plots.
Sections(saveCode) == Split(saveCode, "_")
HasSections(saveCode) == Len(Sections(saveCode)) >= 3
HasVersion(saveCode) == StartsWith(Sections(saveCode)[1], <<"v">>)
PlotRowsOf(saveCode) == Tail(Split(Sections(saveCode)[2], "-"))
HasCropPrefix(saveCode) == StartsWith(Sections(saveCode)[3], <<"C", "R", "-">>)
CropRowsOf(saveCode) ==
    Split(SubSeq(Sections(saveCode)[3], 4, Len(Sections(saveCode)[3])), "-")

WellFormed(saveCode) ==
    /\ HasSections(saveCode)
    /\ HasVersion(saveCode)
    /\ Len(PlotRowsOf(saveCode)) > 0
    /\ HasCropPrefix(saveCode)

\* The number of active plots of the dimension block.
ActiveCount(saveCode) ==
    LET rows == PlotRowsOf(saveCode)
    IN  Cardinality({ <<i, j>> \in (1..Len(rows)) \X (1..Len(rows[1])) :
                        j <= Len(rows[i]) /\ rows[i][j] = "1" })

\* The crop-block entries (0-based) that belong to an active plot.
UsedEntries(saveCode) ==
    { k \in 0..(Len(CropRowsOf(saveCode)) - 1) : k < ActiveCount(saveCode) }

\* C4: the sample code decodes to a 9x9 grid with 3x3 active plots, crop
\* breakdown exactly Tomato 9, Potato 9, Apple 1, and 19 plants in total.
C4_SampleDecodes ==
    (input = SAMPLE_SAVE_CODE /\ parseResult # NotCalled) =>
        /\ parseResult.kind = "ok"
        /\ parseResult.data.dimensions = [rows |-> 9, columns |-> 9]
        /\ Len(parseResult.data.tiles) = 9
        /\ \A i \in 1..9 : Len(parseResult.data.tiles[i]) = 9
        /\ parseResult.data.activePlots = [i \in 1..3 |-> [j \in 1..3 |-> TRUE]]
        /\ DOMAIN parseResult.data.cropSummary.cropBreakdown
               = {"Tomato", "Potato", "Apple"}
        /\ parseResult.data.cropSummary.cropBreakdown["Tomato"].total = 9
        /\ parseResult.data.cropSummary.cropBreakdown["Potato"].total = 9
        /\ parseResult.data.cropSummary.cropBreakdown["Apple"].total = 1
        /\ parseResult.data.cropSummary.totalPlants = 19

C4_SampleDecoded == input = SAMPLE_SAVE_CODE /\ parseResult.kind = "ok"

\* The used crop-block entries that do not tokenize to 9 tiles.
MiscountedEntries(saveCode) ==
    { k \in UsedEntries(saveCode) :
        Len(MatchCropCodes(CropRowsOf(saveCode)[k + 1])) # 9 }

\* C5: when an active plot's entry does not tokenize to exactly 9 tiles,
\* parseGridData fails with an error that names that plot's index and
\* returns no garden, not even a partial one.
C5_TileCountMismatchFails ==
    (parseResult # NotCalled /\ WellFormed(input) /\ MiscountedEntries(input) # {}) =>
        /\ parseResult.kind = "Error"
        /\ "plotIndex" \in DOMAIN parseResult
        /\ parseResult.plotIndex \in MiscountedEntries(input)

\* C6: every input either decodes or fails with a format error; too few
\* sections, a version without 'v', a dimension block without plot rows and
\* a crop section without 'CR-' each fail with a format error, never with
\* an untyped runtime exception.
C6_FailsWithFormatError ==
    parseResult # NotCalled =>
        /\ parseResult.kind \in {"ok", "Error"}
        /\ ~WellFormed(input) => parseResult.kind = "Error"

\* The crop-code tokens of the used 9-tile entries whose code the crop
\* table does not have.
UnknownTokens(saveCode) ==
    { <<k, n>> \in UsedEntries(saveCode) \X (1..9) :
        LET tokens == MatchCropCodes(CropRowsOf(saveCode)[k + 1])
        IN  /\ Len(tokens) = 9
            /\ CropCodeOf(tokens[n]) \notin DOMAIN CROP_MAPPINGS }

RECURSIVE Concat(_)
Concat(parts) == IF Len(parts) = 0 THEN <<>> ELSE Head(parts) \o Concat(Tail(parts))

\* The save code with every unknown crop code replaced by N (no crop), the
\* fertiliser codes kept.
WithoutUnknownCodes(saveCode) ==
    LET sections == Sections(saveCode)
        blank(token) ==
            IF CropCodeOf(token) \in DOMAIN CROP_MAPPINGS THEN token
            ELSE <<"N">> \o SubSeq(token, Len(CropCodeOf(token)) + 1, Len(token))
        row(r) == LET tokens == MatchCropCodes(r)
                  IN  Concat([n \in 1..Len(tokens) |-> blank(tokens[n])])
        rows == CropRowsOf(saveCode)
        crops == <<"C", "R", "-">> \o JoinWith([k \in 1..Len(rows) |-> row(rows[k])], "-")
    IN  JoinWith([k \in 1..Len(sections) |-> IF k = 3 THEN crops ELSE sections[k]], "_")

\* The decode succeeds and every tile is what it is in the decode of the
\* garden with the unknown codes absent: the tile of an unknown code has no
\* crop, the others are unaffected.
UnknownCodeSkipped ==
    (parseResult # NotCalled /\ WellFormed(input) /\ UnknownTokens(input) # {}) =>
        /\ parseResult.kind = "ok"
        /\ \E seed \in Seeds :
              parseResult.data.tiles
                  = ParseGridData(WithoutUnknownCodes(input), seed).data.tiles

\* C7: an unknown crop code in a 9-token plot does not fail the decode, its
\* tile has no crop, the other tiles are decoded as without it, and the
\* result reports the unknown code: something of the result other than the
\* echoed save code tells it from the result for the garden without it.
C7_UnknownCodeReported ==
    (parseResult # NotCalled /\ WellFormed(input) /\ UnknownTokens(input) # {}) =>
        /\ parseResult.kind = "ok"
        /\ \E seed \in Seeds :
              LET without == ParseGridData(WithoutUnknownCodes(input), seed).data
              IN  /\ parseResult.data.tiles = without.tiles
                  /\ \E f \in DOMAIN parseResult.data \ {"saveCode"} :
                        parseResult.data[f] # without[f]


(***************************************************************************)
(* Summary specification: generateCropSummary applied to tile grids        *)
(***************************************************************************)

\* The most tiles of one kind in a generated grid: single-tile crop, bush
\* crop, tree crop.
MaxSingleTiles == 2
MaxBushTiles == 9
MaxTreeTiles == 10

\* The width of the generated grids.
GridWidth == 4

Tile(cropType, isActive, needsWater) ==
    [ row |-> 0, col |-> 0, cropType |-> cropType, fertilizerType |-> Null,
      needsWater |-> needsWater, cropId |-> NoCropId, isActive |-> isActive ]

\* The tiles of q in rows of GridWidth, each tile with its position.
InRows(q) ==
    [i \in 1..((Len(q) + GridWidth - 1) \div GridWidth) |->
        [j \in 1..(IF i * GridWidth <= Len(q) THEN GridWidth
                   ELSE Len(q) - (i - 1) * GridWidth) |->
            [q[(i - 1) * GridWidth + j] EXCEPT !.row = i - 1, !.col = j - 1]]]

\* Grids with nT Tomato, nB Blueberry and nA Apple tiles on active plots,
\* optionally an Apple tile on an inactive plot, a 'None' tile, an empty
\* tile and a tile of a crop CROP_SIZES does not list.
TileGrids ==
    { InRows(Rep(Tile("Apple", TRUE, w), nA)
             \o Rep(Tile("Tomato", TRUE, w), nT)
             \o Rep(Tile("Apple", FALSE, w), x[1])
             \o Rep(Tile("Blueberry", TRUE, w), nB)
             \o Rep(Tile("None", TRUE, w), x[2])
             \o Rep(Tile(Null, TRUE, FALSE), x[2])
             \o Rep(Tile("Lettuce", TRUE, w), x[3])) :
        nT \in 0..MaxSingleTiles, nB \in 0..MaxBushTiles, nA \in 0..MaxTreeTiles,
        w \in BOOLEAN, x \in {<<0, 0, 0>>, <<1, 0, 0>>, <<1, 1, 0>>, <<0, 1, 1>>} }

SummaryInit ==
    /\ gridTiles \in TileGrids
    /\ cropSummary = NotCalled
    /\ ClockIdle /\ ParseIdle /\ StoreIdle

CallGenerateCropSummary ==
    /\ cropSummary = NotCalled
    /\ cropSummary' = GenerateCropSummary(gridTiles)
    /\ UNCHANGED <<gridTiles, clockVars, parseVars, storeVars, otherVars>>

SummaryNext == CallGenerateCropSummary

SpecSummary == SummaryInit /\ [][SummaryNext]_vars

\* The active tiles of the grid that carry crop c.
ActiveTilesOf(c) ==
    Cardinality({ p \in { <<i, j>> \in (1..Len(gridTiles)) \X (1..GridWidth) :
                            j <= Len(gridTiles[i]) } :
                    /\ gridTiles[p[1]][p[2]].cropType = c
                    /\ gridTiles[p[1]][p[2]].isActive })

\* The footprints the claim states.
Footprint(c) == IF c \in BushCrops THEN 4 ELSE IF c = "Apple" THEN 9 ELSE 1

\* C8: generateCropSummary reports for each crop of the table
\* floor(active tiles / footprint) plants (footprint 1, 4 for bushes, 9 for
\* Apple), leaves out a crop whose floor is 0, and totalPlants is the sum of
\* the per-crop totals.
C8_PlantCounts ==
    cropSummary # NotCalled =>
        /\ \A c \in SizedCrops :
              LET plants == ActiveTilesOf(c) \div Footprint(c)
              IN  IF plants = 0 THEN c \notin DOMAIN cropSummary.cropBreakdown
                  ELSE /\ c \in DOMAIN cropSummary.cropBreakdown
                       /\ cropSummary.cropBreakdown[c].total = plants
        /\ cropSummary.totalPlants
              = SumOver([c \in DOMAIN cropSummary.cropBreakdown |->
                            cropSummary.cropBreakdown[c].total],
                        DOMAIN cropSummary.cropBreakdown)

\* A grid with a partly filled bush and tree next to whole ones, an Apple on
\* an inactive plot, and its summary.
C8_PartialPlantsSummarised ==
    /\ cropSummary # NotCalled
    /\ ActiveTilesOf("Apple") = 10
    /\ ActiveTilesOf("Blueberry") = 7
    /\ \E i \in 1..Len(gridTiles) : \E j \in 1..Len(gridTiles[i]) :
          gridTiles[i][j].cropType = "Apple" /\ ~gridTiles[i][j].isActive
    /\ cropSummary.totalPlants >= 2


(***************************************************************************)
(* Unified store: types/unified helpers                                    *)
(***************************************************************************)

\* createTrackedCrop. addedAt is a Date object, kept by its type only: no
\* decision reads its value. lastWateredAt, which nothing reads, is left out.
CreateTrackedCrop(cropType, source, plantInstances) ==
    [ cropType       |-> cropType,
      source         |-> source,
      plantInstances |-> plantInstances,
      totalCount     |-> IF source = "manual" THEN 1 ELSE Len(plantInstances),
      isWatered      |-> FALSE,
      addedAt        |-> "Date" ]

RECURSIVE DistinctInOrder(_, _)
\* The distinct elements of q in the order of their first occurrence: the
\* key order of an object filled in the order of q.
DistinctInOrder(q, acc) ==
    IF Len(q) = 0 THEN acc
    ELSE IF \E i \in 1..Len(acc) : acc[i] = Head(q)
         THEN DistinctInOrder(Tail(q), acc)
         ELSE DistinctInOrder(Tail(q), Append(acc, Head(q)))

\* Object.entries(groupPlantsByType(plants)): the crop types in key order.
GroupKeys(plants) == DistinctInOrder([i \in 1..Len(plants) |-> plants[i].name], <<>>)

\* groupPlantsByType(plants)[cropType]
GroupOf(plants, cropType) == SelectSeq(plants, LAMBDA p : p.name = cropType)

\* crops.findIndex(crop => crop.cropType === cropType), 1-based; 0 for -1.
FindIndex(crops, cropType) ==
    IF \E i \in 1..Len(crops) : crops[i].cropType = cropType
    THEN CHOOSE i \in 1..Len(crops) :
            /\ crops[i].cropType = cropType
            /\ \A j \in 1..(i - 1) : crops[j].cropType # cropType
    ELSE 0

\* The merge without the lookup of an existing entry.
MergeGroupsAlwaysPush(crops, keys, plants) ==
    crops \o [k \in 1..Len(keys) |->
                CreateTrackedCrop(keys[k], "import", GroupOf(plants, keys[k]))]

RECURSIVE MergeGroups(_, _, _)
\* The loop "Process each crop type" of importPlantsFromGarden,
\* saveAndLoadLayout and loadLayoutById.
MergeGroups(crops, keys, plants) ==
    IF Len(keys) = 0 THEN crops
    ELSE LET cropType       == Head(keys)
             plantInstances == GroupOf(plants, cropType)
             existing       == FindIndex(crops, cropType)
         IN  IF existing > 0
             THEN MergeGroups(
                      [crops EXCEPT ![existing] =
                          [@ EXCEPT !.source = "import",
                                    !.plantInstances = plantInstances,
                                    !.totalCount = Len(plantInstances)]],
                      Tail(keys), plants)
             ELSE MergeGroups(
                      Append(crops, CreateTrackedCrop(cropType, "import", plantInstances)),
                      Tail(keys), plants)

\* JSON.stringify of a tracked crop: a Date becomes an ISO string.
StringifyCrop(crop) ==
    [crop EXCEPT !.addedAt = IF @ = "Date" THEN "string" ELSE @]

\* The stored blob with the watering marks dropped.
PersistedDataUnwatered(crops, wateringState, migratedFromLegacy) ==
    [ version            |-> "2.0",
      trackedCrops       |-> [i \in 1..Len(crops) |->
                                StringifyCrop([crops[i] EXCEPT !.isWatered = FALSE])],
      dailyWateringState |-> wateringState,
      migratedFromLegacy |-> migratedFromLegacy,
      lastSaved          |-> "number" ]

\* persistenceUtils.savePersistedData: the JSON text written under
\* STORAGE_KEYS.UNIFIED_GARDEN, with lastSaved: Date.now() added.
PersistedData(crops, wateringState, migratedFromLegacy) ==
    [ version            |-> "2.0",
      trackedCrops       |-> [i \in 1..Len(crops) |-> StringifyCrop(crops[i])],
      dailyWateringState |-> wateringState,
      migratedFromLegacy |-> migratedFromLegacy,
      lastSaved          |-> "number" ]

\* validateTrackedCrop
ValidateTrackedCrop(crop) ==
    /\ crop.source \in {"manual", "import"}
    /\ crop.totalCount \in Nat
    /\ crop.isWatered \in BOOLEAN
    /\ crop.addedAt = "Date"

\* validatePersistedData
ValidatePersistedData(data) ==
    /\ data.version = "2.0"
    /\ \A i \in 1..Len(data.trackedCrops) : ValidateTrackedCrop(data.trackedCrops[i])
    /\ data.dailyWateringState.resetTime \in Nat
    /\ data.migratedFromLegacy \in BOOLEAN
    /\ data.lastSaved = "number"

\* crops.map(crop => ({...crop, isWatered: w}))
AllWatered(crops, w) == [i \in 1..Len(crops) |-> [crops[i] EXCEPT !.isWatered = w]]

(***************************************************************************)
(* App.tsx: the daily reset effect, run after every change of its          *)
(* dependencies (dayText, hours, lastResetDay, isInitialized)              *)
(***************************************************************************)

\* isNewDay alone: the reset effect without its test of the hour.
ResetDueAnyHour(initialized, wateringState, t) ==
    /\ initialized
    /\ DayText(t) # wateringState.lastResetDay

\* isNewDay && is6amOrLater, with the effect's early return.
ResetDue(initialized, wateringState, t) ==
    /\ initialized
    /\ DayText(t) # wateringState.lastResetDay
    /\ Hours(t) >= 6

\* The store after a change to (crops, wateringState, stored, error) at
\* instant t followed by the effect: resetDailyWatering(currentDay) when
\* it is due.
AfterResetEffect(crops, wateringState, initialized, stored, error, cycle, t) ==
    IF ResetDue(initialized, wateringState, t)
    THEN LET updatedCrops == AllWatered(crops, FALSE)
             updatedWateringState == [wateringState EXCEPT !.lastResetDay = DayText(t)]
         IN  [ crops   |-> updatedCrops,
               state   |-> updatedWateringState,
               storage |-> PersistedData(updatedCrops, updatedWateringState, FALSE),
               error   |-> NoError,
               cycle   |-> TotalCycles(t) ]
    ELSE [ crops |-> crops, state |-> wateringState, storage |-> stored,
           error |-> error, cycle |-> cycle ]

(***************************************************************************)
(* Unified store: actions                                                  *)
(***************************************************************************)

\* The crop types the user interface offers.
CropTypes == {"Tomato", "Apple"}

\* updateCycleStatus with the new entry put in front of the five latest.
UpdateCycleStatusKeepFive(history, crops, t) ==
    LET allWatered == Len(crops) > 0 /\ \A i \in 1..Len(crops) : crops[i].isWatered
        cycleId    == TotalCycles(t)
    IN  IF \E j \in 1..Len(history) : history[j].cycleId = cycleId
        THEN [j \in 1..Len(history) |->
                IF history[j].cycleId = cycleId
                THEN [history[j] EXCEPT !.watered = allWatered]
                ELSE history[j]]
        ELSE << [cycleId |-> cycleId, watered |-> allWatered, dayText |-> DayText(t)] >>
             \o SubSeq(history, 1, IF Len(history) < 5 THEN Len(history) ELSE 5)

\* updateCycleStatus (App.tsx:270-287): the entry of the current cycle is
\* set to "all tracked crops are watered", or put in front of the four
\* latest entries. The timestamp of an entry, which nothing reads, is left out.
UpdateCycleStatus(history, crops, t) ==
    LET allWatered == Len(crops) > 0 /\ \A i \in 1..Len(crops) : crops[i].isWatered
        cycleId    == TotalCycles(t)
    IN  IF \E j \in 1..Len(history) : history[j].cycleId = cycleId
        THEN [j \in 1..Len(history) |->
                IF history[j].cycleId = cycleId
                THEN [history[j] EXCEPT !.watered = allWatered]
                ELSE history[j]]
        ELSE << [cycleId |-> cycleId, watered |-> allWatered, dayText |-> DayText(t)] >>
             \o SubSeq(history, 1, IF Len(history) < 4 THEN Len(history) ELSE 4)

\* The effect "Update cycle status when crops change" (App.tsx:289-294),
\* run after a change of the store or of the cycle.
HistoryEffect ==
    cycleWateringState' =
        IF cycleWateringState # HistoryOff /\ isInitialized' /\ Len(trackedCrops') > 0
        THEN [cycleHistory |-> UpdateCycleStatus(cycleWateringState.cycleHistory,
                                                 trackedCrops', currentTime')]
        ELSE cycleWateringState

\* What a store action leaves alone, and the App's effect on the history.
UnchangedOthers ==
    /\ UNCHANGED <<clockVars, parseVars, summaryVars, serviceVars, migrationVars>>
    /\ HistoryEffect

\* set() of an action that replaces trackedCrops and persists.
SetCrops(updatedCrops) ==
    /\ trackedCrops' = updatedCrops
    /\ lastError' = NoError
    /\ unifiedStorage' = PersistedData(updatedCrops, dailyWateringState, FALSE)
    /\ UNCHANGED <<dailyWateringState, isInitialized, isLoading, layoutStorage,
                   pending, lastResetCycle>>
    /\ UnchangedOthers

AddCropManually(cropType) ==
    /\ isInitialized
    /\ IF FindIndex(trackedCrops, cropType) > 0
       THEN /\ lastError' = "already being tracked"
            /\ UNCHANGED <<trackedCrops, dailyWateringState, isInitialized, isLoading,
                           unifiedStorage, layoutStorage, pending, lastResetCycle>>
            /\ UnchangedOthers
       ELSE SetCrops(Append(trackedCrops, CreateTrackedCrop(cropType, "manual", <<>>)))

RemoveCrop(cropType) ==
    /\ isInitialized
    /\ SetCrops(SelectSeq(trackedCrops, LAMBDA crop : crop.cropType # cropType))

ImportPlantsFromGarden(plants) ==
    /\ isInitialized
    /\ SetCrops(MergeGroups(trackedCrops, GroupKeys(plants), plants))

ToggleCropWatered(cropType) ==
    /\ isInitialized
    /\ SetCrops([i \in 1..Len(trackedCrops) |->
                    IF trackedCrops[i].cropType = cropType
                    THEN [trackedCrops[i] EXCEPT !.isWatered = ~@]
                    ELSE trackedCrops[i]])

WaterAllCrops ==
    /\ isInitialized
    /\ SetCrops(AllWatered(trackedCrops, TRUE))

WaterNoneCrops ==
    /\ isInitialized
    /\ SetCrops(AllWatered(trackedCrops, FALSE))

ClearAllCrops ==
    /\ isInitialized
    /\ SetCrops(<<>>)

\* MigrationService.migrateLegacyData: createTrackedCrop cannot throw, so
\* errors stays empty.
MigrateLegacyData(legacyData) ==
    [ success                |-> TRUE,
      migratedCount          |-> Len(legacyData.trackedCrops),
      errors                 |-> <<>>,
      wateringStatePreserved |-> legacyData.cropWateringState # NoItem ]

\* The loop without "Preserve watering state if available".
MigratedCropsUnwatered(legacyData) ==
    [i \in 1..Len(legacyData.trackedCrops) |->
        CreateTrackedCrop(legacyData.trackedCrops[i], "manual", <<>>)]

\* The loop of importFromLegacyData (useUnifiedGardenStore.ts:294-306).
MigratedCrops(legacyData) ==
    [i \in 1..Len(legacyData.trackedCrops) |->
        LET cropType == legacyData.trackedCrops[i]
            crop     == CreateTrackedCrop(cropType, "manual", <<>>)
        IN  IF /\ legacyData.cropWateringState # NoItem
               /\ cropType \in DOMAIN legacyData.cropWateringState.watered
            THEN [crop EXCEPT !.isWatered = legacyData.cropWateringState.watered[cropType]]
            ELSE crop]

\* importFromLegacyData, then the daily reset effect (lastResetDay changed):
\* what they do to the store.
ImportFromLegacyDataStore(legacyData) ==
    /\ isInitialized
    /\ MigrateLegacyData(legacyData).success
    /\ LET migratedCrops == MigratedCrops(legacyData)
           updatedWateringState ==
               [ lastResetDay |-> IF legacyData.cropWateringState # NoItem
                                  THEN legacyData.cropWateringState.lastResetDay
                                  ELSE <<>>,
                 resetTime    |-> 6 ]
           after == AfterResetEffect(migratedCrops, updatedWateringState, isInitialized,
                        PersistedData(migratedCrops, updatedWateringState, TRUE),
                        NoError, lastResetCycle, currentTime)
       IN  /\ trackedCrops' = after.crops
           /\ dailyWateringState' = after.state
           /\ unifiedStorage' = after.storage
           /\ lastError' = after.error
           /\ lastResetCycle' = after.cycle
    /\ UNCHANGED <<isInitialized, isLoading, layoutStorage, pending>>

\* importFromLegacyData called on the store directly.
ImportFromLegacyData(legacyData) ==
    /\ ImportFromLegacyDataStore(legacyData)
    /\ UnchangedOthers

\* config.maxLayouts of the layout service (50 in DEFAULT_CONFIG), scaled
\* to the model.
MaxLayouts == 1

\* The most saveAndLoadLayout calls suspended at once in the full application.
MaxPending == 1

RECURSIVE FlattenRows(_)
\* tiles.flat()
FlattenRows(rows) ==
    IF Len(rows) = 0 THEN <<>> ELSE Head(rows) \o FlattenRows(Tail(rows))

\* Object.entries(cropSummary.cropBreakdown): the crops of the breakdown in
\* the order generateCropSummary met them in the tiles.
BreakdownKeys(gardenData) ==
    LET flat == FlattenRows(gardenData.tiles)
    IN  SelectSeq(DistinctInOrder([i \in 1..Len(flat) |-> flat[i].cropType], <<>>),
                  LAMBDA c : c \in DOMAIN gardenData.cropSummary.cropBreakdown)

\* "Convert garden data to plants": total plants per crop of the breakdown,
\* with ids `${cropType}-${i}`.
PlantsOfLayout(savedLayout) ==
    LET keys == BreakdownKeys(savedLayout.gardenData)
    IN  Concat([k \in 1..Len(keys) |->
                  [i \in 1..savedLayout.gardenData.cropSummary.cropBreakdown[keys[k]].total |->
                      [id |-> <<keys[k], i - 1>>, name |-> keys[k], needsWater |-> FALSE]]])

\* saveAndLoadLayout up to its await: isLoading is set and
\* layoutService.saveLayout runs parseGridData, then suspends.
SaveAndLoadLayoutBegin(saveCode, name) ==
    /\ isInitialized
    /\ isLoading' = TRUE
    /\ lastError' = NoError
    /\ \E seed \in Seeds :
          pending' = Append(pending, [ pc |-> "saveLayout", saveCode |-> saveCode,
                                       name |-> name,
                                       parsed |-> ParseGridData(saveCode, seed) ])
    /\ UNCHANGED <<trackedCrops, dailyWateringState, isInitialized, unifiedStorage,
                   layoutStorage, lastResetCycle>>
    /\ UnchangedOthers

\* The ids of the layouts of a list.
IdsOf(layouts) ==
    { layouts[i].metadata.id : i \in { j \in 1..Len(layouts) : "metadata" \in DOMAIN layouts[j] } }

\* The layout ids present anywhere: stored, exported, or held by a call.
KnownIds ==
    IdsOf(layoutStorage)
    \cup (IF exportedJson = NoItem THEN {} ELSE IdsOf(exportedJson.layouts))
    \cup { pending[k].data.metadata.id :
             k \in { j \in 1..Len(pending) : pending[j].pc = "resume" /\ pending[j].success } }

\* A fresh metadata.id (uuidv4()): an id found nowhere else.
FreshLayoutId == CHOOSE n \in 1..(Cardinality(KnownIds) + 1) :
                    /\ n \notin KnownIds
                    /\ \A m \in 1..(n - 1) : m \in KnownIds

\* No existingId given.
NoId == 0

\* The options the store passes to saveLayout.
NoOptions == [updateExisting |-> FALSE, existingId |-> NoId]

\* The quota check refuses only when the count is above the limit.
QuotaReachedOffByOne(options, maxLayouts, layouts) ==
    ~options.updateExisting /\ Len(layouts) > maxLayouts

\* "Check quota if creating new layout" (layoutService.ts:56-69).
QuotaReached(options, maxLayouts, layouts) ==
    ~options.updateExisting /\ Len(layouts) >= maxLayouts

\* layoutService.saveLayout after its await (layoutService.ts:55-121): the
\* result returned and the layouts in storage afterwards.
SaveLayoutOutcome(parsed, saveCode, name, options, maxLayouts, layouts) ==
    IF parsed.kind # "ok"
    THEN [ result  |-> [ success |-> FALSE,
                         error |-> [type |-> "VALIDATION_ERROR", message |-> parsed.message] ],
           layouts |-> layouts ]
    ELSE IF QuotaReached(options, maxLayouts, layouts)
    THEN [ result  |-> [ success |-> FALSE,
                         error |-> [type |-> "QUOTA_EXCEEDED",
                                    message |-> "Maximum number of layouts reached"] ],
           layouts |-> layouts ]
    ELSE LET id == IF options.existingId # NoId THEN options.existingId ELSE FreshLayoutId
             savedLayout ==
                 [ metadata   |-> [id |-> id, name |-> name],
                   saveCode   |-> saveCode,
                   gardenData |-> parsed.data,
                   isFavorite |-> FALSE ]
         IN  [ result  |-> [success |-> TRUE, data |-> savedLayout],
               layouts |-> IF id \in IdsOf(layouts)
                           THEN [i \in 1..Len(layouts) |->
                                   IF layouts[i].metadata.id = id THEN savedLayout
                                   ELSE layouts[i]]
                           ELSE Append(layouts, savedLayout) ]

\* layoutService.saveLayout, called by saveAndLoadLayout, after its await.
SaveLayoutResume(k, maxLayouts) ==
    /\ k \in 1..Len(pending)
    /\ pending[k].pc = "saveLayout"
    /\ LET call    == pending[k]
           outcome == SaveLayoutOutcome(call.parsed, call.saveCode, call.name, NoOptions,
                                        maxLayouts, layoutStorage)
       IN  /\ layoutStorage' = outcome.layouts
           /\ pending' = [pending EXCEPT ![k] =
                             IF outcome.result.success
                             THEN [ pc |-> "resume", success |-> TRUE,
                                    data |-> outcome.result.data ]
                             ELSE [ pc |-> "resume", success |-> FALSE,
                                    error |-> outcome.result.error ]]
    /\ UNCHANGED <<trackedCrops, dailyWateringState, isInitialized, isLoading, lastError,
                   unifiedStorage, lastResetCycle>>
    /\ UnchangedOthers

\* The merge that forgets the crops tracked so far.
GetNoCrops == <<>>

\* get().trackedCrops, read after the await.
GetTrackedCrops == trackedCrops

\* Lines 396-459 of saveAndLoadLayout and 479-542 of loadLayoutById: the
\* store after the layout service answered.
AfterLayoutResult(result) ==
    IF ~result.success
    THEN /\ isLoading' = FALSE
         /\ lastError' = result.error.message
         /\ UNCHANGED <<trackedCrops, unifiedStorage>>
    ELSE LET plants       == PlantsOfLayout(result.data)
             updatedCrops == MergeGroups(GetTrackedCrops, GroupKeys(plants), plants)
         IN  /\ unifiedStorage' = PersistedData(updatedCrops, dailyWateringState, FALSE)
             /\ trackedCrops' = updatedCrops
             /\ isLoading' = FALSE
             /\ lastError' = NoError

\* saveAndLoadLayout after its await.
SaveAndLoadLayoutResume(k) ==
    /\ k \in 1..Len(pending)
    /\ pending[k].pc = "resume"
    /\ AfterLayoutResult(pending[k])
    /\ pending' = SubSeq(pending, 1, k - 1) \o SubSeq(pending, k + 1, Len(pending))
    /\ UNCHANGED <<dailyWateringState, isInitialized, layoutStorage, lastResetCycle>>
    /\ UnchangedOthers

\* loadLayout answering with the first stored layout, whatever the id.
LoadLayoutFirst(id) ==
    IF Len(layoutStorage) > 0
    THEN [success |-> TRUE, data |-> layoutStorage[1]]
    ELSE [ success |-> FALSE,
           error |-> [type |-> "LAYOUT_NOT_FOUND", message |-> "Layout not found"] ]

\* layoutService.loadLayout(id)
LoadLayout(id) ==
    IF \E i \in 1..Len(layoutStorage) : layoutStorage[i].metadata.id = id
    THEN [ success |-> TRUE,
           data |-> layoutStorage[CHOOSE i \in 1..Len(layoutStorage) :
                        /\ layoutStorage[i].metadata.id = id
                        /\ \A j \in 1..(i - 1) : layoutStorage[j].metadata.id # id] ]
    ELSE [ success |-> FALSE,
           error |-> [type |-> "LAYOUT_NOT_FOUND", message |-> "Layout not found"] ]

\* loadLayoutById: it has no await, so it runs in one step.
LoadLayoutById(layoutId) ==
    /\ isInitialized
    /\ AfterLayoutResult(LoadLayout(layoutId))
    /\ UNCHANGED <<dailyWateringState, isInitialized, layoutStorage, pending, lastResetCycle>>
    /\ UnchangedOthers

\* persistenceUtils.loadPersistedData: JSON.parse of the stored text, addedAt
\* turned back into a Date, and null when the result does not validate.
LoadPersistedData ==
    IF unifiedStorage = NoItem THEN NoItem
    ELSE LET parsed == [unifiedStorage EXCEPT !.trackedCrops =
                          [i \in 1..Len(@) |-> [@[i] EXCEPT !.addedAt = "Date"]]]
         IN  IF ValidatePersistedData(parsed) THEN parsed ELSE NoItem

\* What initializeUnifiedStore installs from localStorage, and the daily
\* reset effect that follows it (isInitialized changed).
InitializedStore ==
    LET persistedData == LoadPersistedData
        crops  == IF persistedData # NoItem THEN persistedData.trackedCrops ELSE <<>>
        state  == IF persistedData # NoItem THEN persistedData.dailyWateringState
                  ELSE DEFAULT_DAILY_WATERING_STATE
        stored == IF persistedData # NoItem THEN unifiedStorage
                  ELSE PersistedData(<<>>, DEFAULT_DAILY_WATERING_STATE, FALSE)
    IN  AfterResetEffect(crops, state, TRUE, stored, NoError, lastResetCycle, currentTime)

\* initializeUnifiedStore, then the daily reset effect.
InitializeUnifiedStore ==
    /\ ~isInitialized
    /\ trackedCrops' = InitializedStore.crops
    /\ dailyWateringState' = InitializedStore.state
    /\ unifiedStorage' = InitializedStore.storage
    /\ lastError' = InitializedStore.error
    /\ lastResetCycle' = InitializedStore.cycle
    /\ isInitialized' = TRUE
    /\ isLoading' = FALSE
    /\ UNCHANGED <<layoutStorage, pending>>
    /\ UnchangedOthers

\* setCurrentTime(Date.now()) of the interval, then the daily reset effect
\* (dayText or hours changed).
ClockSample(t) ==
    /\ t > currentTime
    /\ currentTime' = t
    /\ timeData' = TimeDataOf(t)
    /\ LET after == AfterResetEffect(trackedCrops, dailyWateringState, isInitialized,
                                     unifiedStorage, lastError, lastResetCycle, t)
       IN  /\ trackedCrops' = after.crops
           /\ dailyWateringState' = after.state
           /\ unifiedStorage' = after.storage
           /\ lastError' = after.error
           /\ lastResetCycle' = after.cycle
    /\ UNCHANGED <<isInitialized, isLoading, layoutStorage, pending>>
    /\ UNCHANGED <<parseVars, summaryVars, serviceVars, migrationVars>>
    /\ HistoryEffect

\* The page is closed and opened again at instant t: a new store, the
\* same localStorage.
Reload(t) ==
    /\ t >= currentTime
    /\ currentTime' = t
    /\ timeData' = TimeDataOf(t)
    /\ trackedCrops' = <<>>
    /\ dailyWateringState' = DEFAULT_DAILY_WATERING_STATE
    /\ isInitialized' = FALSE
    /\ isLoading' = FALSE
    /\ lastError' = NoError
    /\ pending' = <<>>
    /\ UNCHANGED <<unifiedStorage, layoutStorage, lastResetCycle>>
    /\ UNCHANGED <<parseVars, summaryVars, serviceVars, legacyStorage, historyVars>>
    /\ migrationBanner' = BannerMounting

(***************************************************************************)
(* The application: clock, unified store and layout service                *)
(***************************************************************************)

\* An instant at which the shifted time is a whole number of weeks.
T0 == PST_UTC_SUNDAY_OFFSET + WeekMs

\* One in-game hour in real milliseconds.
PalianHourMs == HourMs \div 24

\* The instants the clock is sampled at: 00:00, 05:00, 06:00 and 12:00 of
\* one in-game day, 06:00 of the next, and 12:00 of the day a week later.
StoreInstants ==
    { T0, T0 + 5 * PalianHourMs, T0 + 6 * PalianHourMs, T0 + 12 * PalianHourMs,
      T0 + HourMs + 6 * PalianHourMs, T0 + WeekMs + 12 * PalianHourMs }

Plant(name, n) == [id |-> <<name, n>>, name |-> name, needsWater |-> FALSE]

\* Arguments of importPlantsFromGarden.
PlantLists ==
    { <<>>, <<Plant("Tomato", 0)>>,
      <<Plant("Tomato", 0), Plant("Apple", 0), Plant("Tomato", 1)>> }

\* Arguments of importFromLegacyData: what extractLegacyData can read from
\* the legacy localStorage keys.
LegacyInputs ==
    { [trackedCrops |-> <<>>, cropWateringState |-> NoItem],
      [trackedCrops |-> <<"Tomato", "Tomato">>, cropWateringState |-> NoItem],
      [trackedCrops |-> <<"Apple", "Tomato">>,
       cropWateringState |-> [watered |-> ("Tomato" :> TRUE), lastResetDay |-> <<1, 1>>]] }

\* Save codes handed to saveAndLoadLayout: one plot of tomatoes, one apple
\* tree in one plot, and a code that does not parse.
LayoutCodes ==
    { JoinWith(<< <<"v", "0", ".", "4">>, <<"D", "-", "1">>,
                  <<"C", "R", "-">> \o Rep("T", 9) >>, "_"),
      JoinWith(<< <<"v", "0", ".", "4">>, <<"D", "-", "1">>,
                  <<"C", "R", "-">> \o Rep("A", 9) >>, "_"),
      Garbage }

LayoutIds == 1..(MaxLayouts + 1)

StoreInit ==
    /\ currentTime = T0
    /\ timeData = TimeDataOf(T0)
    /\ StoreIdle
    /\ ParseIdle
    /\ SummaryIdle

\* The watering tracker without layouts and migration.
DailyNext ==
    \/ InitializeUnifiedStore
    \/ \E t \in StoreInstants : ClockSample(t)
    \/ \E t \in StoreInstants : Reload(t)
    \/ \E cropType \in CropTypes : AddCropManually(cropType)
    \/ \E cropType \in CropTypes : RemoveCrop(cropType)
    \/ \E cropType \in CropTypes : ToggleCropWatered(cropType)
    \/ WaterAllCrops
    \/ WaterNoneCrops

SpecDaily == StoreInit /\ [][DailyNext]_vars

\* The watering tracker with garden imports, without layouts and migration.
TrackerNext ==
    \/ DailyNext
    \/ ClearAllCrops
    \/ \E plants \in PlantLists : ImportPlantsFromGarden(plants)

SpecTracker == StoreInit /\ [][TrackerNext]_vars

\* The instants of the full application: 00:00 and 06:00 of one in-game
\* day and 06:00 of the next.
AppInstants == { T0, T0 + 6 * PalianHourMs, T0 + HourMs + 6 * PalianHourMs }

Next ==
    \/ InitializeUnifiedStore
    \/ \E t \in AppInstants : ClockSample(t)
    \/ \E t \in AppInstants : Reload(t)
    \/ \E cropType \in CropTypes : AddCropManually(cropType)
    \/ \E cropType \in CropTypes : RemoveCrop(cropType)
    \/ \E cropType \in CropTypes : ToggleCropWatered(cropType)
    \/ WaterAllCrops
    \/ WaterNoneCrops
    \/ ClearAllCrops
    \/ \E plants \in PlantLists : ImportPlantsFromGarden(plants)
    \/ \E legacyData \in LegacyInputs : ImportFromLegacyData(legacyData)
    \/ \E saveCode \in LayoutCodes :
          Len(pending) < MaxPending /\ SaveAndLoadLayoutBegin(saveCode, "layout")
    \/ \E k \in 1..MaxPending : SaveLayoutResume(k, MaxLayouts)
    \/ \E k \in 1..MaxPending : SaveAndLoadLayoutResume(k)
    \/ \E layoutId \in LayoutIds : LoadLayoutById(layoutId)

Spec == StoreInit /\ [][Next]_vars

\* C9: whenever the store is initialized and the clock is sampled (or the
\* store is initialized after the app was not running) at an instant whose
\* in-game hour is at least 6 and whose in-game day is not the one in which
\* the last daily reset happened, the reset fires and every tracked crop
\* is unwatered afterwards.
C9_ResetOnNewDay ==
    [][ ( /\ isInitialized'
          /\ (currentTime' # currentTime \/ ~isInitialized)
          /\ Hours(currentTime') >= 6
          /\ TotalCycles(currentTime') # lastResetCycle )
        => ( /\ lastResetCycle' = TotalCycles(currentTime')
             /\ \A i \in 1..Len(trackedCrops') : ~trackedCrops'[i].isWatered ) ]_vars

\* C10: trackedCrops holds at most one entry per cropType.
C10_UniqueCropType ==
    \A i, j \in 1..Len(trackedCrops) :
        trackedCrops[i].cropType = trackedCrops[j].cropType => i = j

\* The fields of the tracked crops a refresh is to preserve.
CropFields(crops) ==
    [i \in 1..Len(crops) |->
        [ cropType |-> crops[i].cropType, source |-> crops[i].source,
          totalCount |-> crops[i].totalCount, isWatered |-> crops[i].isWatered ]]

\* C11: when the page of an initialized store is refreshed (a fresh store at
\* the same instant, then initializeUnifiedStore), the tracked crops restored
\* have the same cropType, source, totalCount and isWatered in the same
\* order as before the refresh, and dailyWateringState is the same.
C11_RefreshRestores ==
    [][ (isInitialized /\ ~isInitialized' /\ currentTime' = currentTime)
        => ( /\ CropFields(InitializedStore.crops)' = CropFields(trackedCrops)
             /\ InitializedStore.state' = dailyWateringState ) ]_vars

\* The page was refreshed with a watered, imported crop and a reset day in
\* storage.
C11_RefreshedWithCrops ==
    /\ ~isInitialized
    /\ unifiedStorage # NoItem
    /\ unifiedStorage.dailyWateringState.lastResetDay # <<>>
    /\ \E i \in 1..Len(unifiedStorage.trackedCrops) :
          /\ unifiedStorage.trackedCrops[i].isWatered
          /\ unifiedStorage.trackedCrops[i].source = "import"
          /\ unifiedStorage.trackedCrops[i].totalCount = 2

(***************************************************************************)
(* Overlapping saveAndLoadLayout calls                                     *)
(***************************************************************************)

\* The most saveAndLoadLayout calls suspended at once, and a layout quota
\* that lets that many succeed.
MaxOverlap == 2

OverlapPlants == <<Plant("Tomato", 0), Plant("Apple", 0), Plant("Tomato", 1)>>

OverlapNext ==
    \/ InitializeUnifiedStore
    \/ \E cropType \in CropTypes : AddCropManually(cropType)
    \/ \E cropType \in CropTypes : ToggleCropWatered(cropType)
    \/ ImportPlantsFromGarden(OverlapPlants)
    \/ \E saveCode \in LayoutCodes :
          Len(pending) < MaxOverlap /\ SaveAndLoadLayoutBegin(saveCode, "layout")
    \/ \E k \in 1..MaxOverlap : SaveLayoutResume(k, MaxOverlap)
    \/ \E k \in 1..MaxOverlap : SaveAndLoadLayoutResume(k)

SpecOverlap == StoreInit /\ [][OverlapNext]_vars

\* The crops of a saved layout with their plant counts.
LayoutCrops(savedLayout) == savedLayout.gardenData.cropSummary.cropBreakdown

\* A step in which the suspended call k of saveAndLoadLayout completes.
Completes(k) ==
    /\ k \in 1..Len(pending)
    /\ pending[k].pc = "resume"
    /\ pending' = SubSeq(pending, 1, k - 1) \o SubSeq(pending, k + 1, Len(pending))

\* C12: overlapping calls lose no update. When a suspended saveAndLoadLayout
\* completes, every crop tracked at that moment (whatever ran while the call
\* was suspended) is still tracked at its place with its watered mark, and
\* is unchanged unless the layout holds its crop type; every crop of the
\* layout is tracked as an import with the layout's plant count; a failed
\* call changes no crop; and once no call is suspended the persisted blob
\* is the in-memory state.
C12_NoLostUpdate ==
    /\ [][ \A k \in 1..MaxOverlap : Completes(k) =>
            IF pending[k].success
            THEN /\ Len(trackedCrops') >= Len(trackedCrops)
                 /\ \A i \in 1..Len(trackedCrops) :
                       /\ trackedCrops'[i].cropType = trackedCrops[i].cropType
                       /\ trackedCrops'[i].isWatered = trackedCrops[i].isWatered
                       /\ trackedCrops[i].cropType \notin DOMAIN LayoutCrops(pending[k].data)
                             => trackedCrops'[i] = trackedCrops[i]
                 /\ \A c \in DOMAIN LayoutCrops(pending[k].data) :
                       \E i \in 1..Len(trackedCrops') :
                          /\ trackedCrops'[i].cropType = c
                          /\ trackedCrops'[i].source = "import"
                          /\ trackedCrops'[i].totalCount = LayoutCrops(pending[k].data)[c].total
            ELSE trackedCrops' = trackedCrops ]_vars
    /\ [](isInitialized /\ pending = <<>> =>
            /\ unifiedStorage # NoItem
            /\ unifiedStorage.trackedCrops = PersistedData(trackedCrops, dailyWateringState, FALSE).trackedCrops
            /\ unifiedStorage.dailyWateringState = dailyWateringState)

\* The call that saved the first layout is still suspended while a second
\* call has saved its layout of nine tomatoes and completed, and the
\* tomatoes it imported were watered since.
C12_OverlappedAndCompleted ==
    /\ Len(pending) = 1
    /\ pending[1].pc = "resume"
    /\ pending[1].success
    /\ pending[1].data.metadata.id = 1
    /\ Len(layoutStorage) = 2
    /\ \E i \in 1..Len(trackedCrops) :
          /\ trackedCrops[i].cropType = "Tomato"
          /\ trackedCrops[i].source = "import"
          /\ trackedCrops[i].totalCount = 9
          /\ trackedCrops[i].isWatered

(***************************************************************************)
(* LayoutService                                                           *)
(***************************************************************************)

\* layoutService.saveLayout(saveCode, name, options), with the service
\* configured for maxLayouts layouts. Its only await is parseGridData, which
\* touches no state, so the call is one step.
SaveLayout(saveCode, name, options, maxLayouts) ==
    /\ \E seed \in Seeds :
          LET outcome == SaveLayoutOutcome(ParseGridData(saveCode, seed), saveCode, name,
                                           options, maxLayouts, layoutStorage)
          IN  /\ layoutStorage' = outcome.layouts
              /\ lastResult' = [op |-> "saveLayout", result |-> outcome.result]
    /\ UNCHANGED <<clockVars, parseVars, summaryVars, trackedCrops, dailyWateringState,
                   isInitialized, isLoading, lastError, unifiedStorage, pending,
                   lastResetCycle, exportedJson, migrationVars, historyVars>>

\* What a LayoutService call without await leaves alone.
ServiceFrame ==
    UNCHANGED <<clockVars, parseVars, summaryVars, trackedCrops, dailyWateringState,
                isInitialized, isLoading, lastError, unifiedStorage, pending,
                lastResetCycle, migrationVars, historyVars>>

NotFound == [ success |-> FALSE,
              error |-> [type |-> "LAYOUT_NOT_FOUND", message |-> "Layout not found"] ]

\* layoutService.deleteLayout(id)
DeleteLayout(id) ==
    /\ LET filteredLayouts == SelectSeq(layoutStorage, LAMBDA l : l.metadata.id # id)
       IN  IF Len(filteredLayouts) = Len(layoutStorage)
           THEN /\ lastResult' = [op |-> "deleteLayout", result |-> NotFound]
                /\ UNCHANGED layoutStorage
           ELSE /\ layoutStorage' = filteredLayouts
                /\ lastResult' = [op |-> "deleteLayout",
                                  result |-> [success |-> TRUE, data |-> TRUE]]
    /\ UNCHANGED exportedJson
    /\ ServiceFrame

\* layoutService.updateLayoutMetadata(id, {isFavorite})
UpdateLayoutMetadata(id, isFavorite) ==
    /\ IF id \notin IdsOf(layoutStorage)
       THEN /\ lastResult' = [op |-> "updateLayoutMetadata", result |-> NotFound]
            /\ UNCHANGED layoutStorage
       ELSE LET layoutIndex == CHOOSE i \in 1..Len(layoutStorage) :
                                  /\ layoutStorage[i].metadata.id = id
                                  /\ \A j \in 1..(i - 1) : layoutStorage[j].metadata.id # id
                layout == [layoutStorage[layoutIndex] EXCEPT !.isFavorite = isFavorite]
            IN  /\ layoutStorage' = [layoutStorage EXCEPT ![layoutIndex] = layout]
                /\ lastResult' = [op |-> "updateLayoutMetadata",
                                  result |-> [success |-> TRUE, data |-> layout]]
    /\ UNCHANGED exportedJson
    /\ ServiceFrame

\* layoutService.clearAllLayouts()
ClearAllLayouts ==
    /\ layoutStorage' = <<>>
    /\ lastResult' = [op |-> "clearAllLayouts", result |-> [success |-> TRUE, data |-> TRUE]]
    /\ UNCHANGED exportedJson
    /\ ServiceFrame

\* layoutService.exportLayouts(): the JSON text (exportDate left out), which
\* the caller keeps.
ExportLayouts ==
    /\ exportedJson' = [version |-> "1.0", layouts |-> layoutStorage]
    /\ lastResult' = [op |-> "exportLayouts", result |-> [success |-> TRUE]]
    /\ UNCHANGED layoutStorage
    /\ ServiceFrame

\* isValidSavedLayout
IsValidSavedLayout(data) ==
    /\ {"metadata", "saveCode", "gardenData", "isFavorite"} \subseteq DOMAIN data
    /\ {"id", "name"} \subseteq DOMAIN data.metadata
    /\ data.isFavorite \in BOOLEAN

\* "Check quota" of the import loop (layoutService.ts:437-439).
ImportQuotaReached(existingLayouts, importedCount, maxLayouts) ==
    Len(existingLayouts) + importedCount >= maxLayouts

RECURSIVE ImportLoop(_, _, _, _, _)
\* The loop of importLayouts over importData.layouts (layoutService.ts:424-444).
ImportLoop(importLayouts, existingLayouts, importedCount, overwrite, maxLayouts) ==
    IF Len(importLayouts) = 0
    THEN [layouts |-> existingLayouts, importedCount |-> importedCount]
    ELSE LET layoutData == Head(importLayouts) IN
         IF ~IsValidSavedLayout(layoutData)
         THEN ImportLoop(Tail(importLayouts), existingLayouts, importedCount,
                         overwrite, maxLayouts)
         ELSE IF layoutData.metadata.id \in IdsOf(existingLayouts)
         THEN IF overwrite
              THEN ImportLoop(Tail(importLayouts),
                              [i \in 1..Len(existingLayouts) |->
                                  IF i = (CHOOSE j \in 1..Len(existingLayouts) :
                                            /\ existingLayouts[j].metadata.id
                                                   = layoutData.metadata.id
                                            /\ \A m \in 1..(j - 1) :
                                                  existingLayouts[m].metadata.id
                                                      # layoutData.metadata.id)
                                  THEN layoutData ELSE existingLayouts[i]],
                              importedCount + 1, overwrite, maxLayouts)
              ELSE ImportLoop(Tail(importLayouts), existingLayouts, importedCount,
                              overwrite, maxLayouts)
         ELSE IF ImportQuotaReached(existingLayouts, importedCount, maxLayouts)
         THEN [layouts |-> existingLayouts, importedCount |-> importedCount]
         ELSE ImportLoop(Tail(importLayouts), Append(existingLayouts, layoutData),
                         importedCount + 1, overwrite, maxLayouts)

\* layoutService.importLayouts(jsonData, {overwrite}); it awaits nothing.
ImportLayouts(importData, overwrite, maxLayouts) ==
    /\ IF "layouts" \notin DOMAIN importData
       THEN /\ lastResult' = [op |-> "importLayouts",
                              result |-> [ success |-> FALSE,
                                           error |-> [type |-> "VALIDATION_ERROR",
                                                      message |-> "Invalid import data format"] ]]
            /\ UNCHANGED layoutStorage
       ELSE LET done == ImportLoop(importData.layouts, layoutStorage, 0, overwrite, maxLayouts)
            IN  /\ layoutStorage' = done.layouts
                /\ lastResult' = [op |-> "importLayouts",
                                  result |-> [success |-> TRUE, data |-> done.importedCount]]
    /\ UNCHANGED exportedJson
    /\ ServiceFrame

\* config.maxLayouts of the service under test (50 by default), scaled.
QuotaLayouts == 2

\* A save code of one plot of tomatoes.
TomatoCode ==
    JoinWith(<< <<"v", "0", ".", "4">>, <<"D", "-", "1">>,
                <<"C", "R", "-">> \o Rep("T", 9) >>, "_")

ServiceCodes == { TomatoCode, Garbage }

\* Ids a caller may pass: of stored layouts, and one more.
ServiceIds == 1..(QuotaLayouts + 2)

SaveOptions ==
    { [updateExisting |-> u, existingId |-> id] :
        u \in BOOLEAN, id \in {NoId, 1, QuotaLayouts + 2} }

\* A layout as found in an import file.
ImportedLayout(id) ==
    [ metadata   |-> [id |-> id, name |-> "imported"],
      saveCode   |-> Garbage,
      gardenData |-> [version |-> <<"v">>],
      isFavorite |-> FALSE ]

\* Import files: three layouts one of which is not valid, and a text
\* without a layouts array.
ImportFiles ==
    { [version |-> "1.0",
       layouts |-> << ImportedLayout(1), [saveCode |-> Garbage],
                      ImportedLayout(QuotaLayouts + 1), ImportedLayout(QuotaLayouts + 2) >>],
      [version |-> "1.0"] }

ServiceInit ==
    /\ currentTime = T0
    /\ timeData = TimeDataOf(T0)
    /\ StoreIdle
    /\ ParseIdle
    /\ SummaryIdle

\* The exploration stops growing the storage once it holds more than the quota.
QuotaNext ==
    \/ \E saveCode \in ServiceCodes, options \in SaveOptions :
          /\ Len(layoutStorage) <= QuotaLayouts
          /\ SaveLayout(saveCode, "layout", options, QuotaLayouts)
    \/ \E importData \in ImportFiles, overwrite \in BOOLEAN :
          ImportLayouts(importData, overwrite, QuotaLayouts)
    \/ \E id \in ServiceIds : DeleteLayout(id)
    \/ \E id \in ServiceIds : UpdateLayoutMetadata(id, TRUE)
    \/ ClearAllLayouts

SpecQuota == ServiceInit /\ [][QuotaNext]_vars

\* C13: starting from empty storage, after any sequence of LayoutService
\* operations the stored layouts never number more than maxLayouts, and a
\* saveLayout of a new layout when the count equals maxLayouts fails with
\* QUOTA_EXCEEDED.
C13_QuotaNeverExceeded ==
    /\ [](Len(layoutStorage) <= QuotaLayouts)
    /\ [][ \A options \in SaveOptions :
              ( /\ Len(layoutStorage) = QuotaLayouts
                /\ ~options.updateExisting
                /\ lastResult'.op = "saveLayout"
                /\ SaveLayout(TomatoCode, "layout", options, QuotaLayouts) )
              => /\ ~lastResult'.result.success
                 /\ lastResult'.result.error.type = "QUOTA_EXCEEDED" ]_vars

(***************************************************************************)
(* Backup and restore of the layouts                                      *)
(***************************************************************************)

BackupNames == { "Garden 1", "Garden 2" }

\* Layouts are saved, starred and deleted; then they are exported, and from
\* then on the storage is only cleared and the exported text imported.
BackupNext ==
    \/ \E name \in BackupNames :
          /\ exportedJson = NoItem
          /\ SaveLayout(TomatoCode, name, NoOptions, QuotaLayouts)
    \/ \E id \in ServiceIds :
          /\ exportedJson = NoItem
          /\ UpdateLayoutMetadata(id, TRUE)
    \/ \E id \in ServiceIds :
          /\ exportedJson = NoItem
          /\ DeleteLayout(id)
    \/ /\ exportedJson = NoItem
       /\ ExportLayouts
    \/ /\ exportedJson # NoItem
       /\ ClearAllLayouts
    \/ \E overwrite \in BOOLEAN :
          /\ exportedJson # NoItem
          /\ ImportLayouts(exportedJson, overwrite, QuotaLayouts)

SpecBackup == ServiceInit /\ [][BackupNext]_vars

\* C14: for any stored set of N <= maxLayouts layouts, exportLayouts(), then
\* clearAllLayouts(), then importLayouts(exported JSON) reports N imported
\* layouts and leaves storage holding exactly the N original layouts.
C14_ExportImportRoundTrip ==
    [][ \A overwrite \in BOOLEAN :
          ( /\ exportedJson # NoItem
            /\ layoutStorage = <<>>
            /\ lastResult.op = "clearAllLayouts"
            /\ lastResult'.op = "importLayouts"
            /\ ImportLayouts(exportedJson, overwrite, QuotaLayouts) )
          => /\ lastResult'.result.success
             /\ lastResult'.result.data = Len(exportedJson.layouts)
             /\ layoutStorage' = exportedJson.layouts ]_vars

(***************************************************************************)
(* parsePaliaPlannerUrl and parseSaveCode, for a direct save code          *)
(***************************************************************************)

\* parseCropCodesFromPlot: the crop names of the tiles of one plot entry.
ParseCropCodesFromPlot(plotCropString) ==
    LET cropCodes == MatchCropCodes(plotCropString)
        planted   == SelectSeq(cropCodes, LAMBDA t : IsPlantedCode(CropCodeOf(t)))
    IN  [i \in 1..Len(planted) |-> CROP_MAPPINGS[CropCodeOf(planted[i])]]

\* The number of entries of a list equal to x.
Occurrences(list, x) == Cardinality({ i \in 1..Len(list) : list[i] = x })

\* countCropsCorrectly: crop name -> plants, for the names with a plant
\* (every name CROP_MAPPINGS yields has its CROP_SIZES entry).
CountCropsCorrectly(allCropTiles) ==
    LET names == { allCropTiles[i] : i \in 1..Len(allCropTiles) }
        plantCount(c) == Floor(Occurrences(allCropTiles, c), CropSize(c).tiles)
    IN  [c \in { n \in names : plantCount(n) > 0 } |-> plantCount(c)]

\* "Convert counts to Plant objects": count plants per name, the names in
\* the order keys gives, each with its own uuid.
PlantsOf(keys, count, seed) ==
    LET names == Concat([k \in 1..Len(keys) |-> [i \in 1..count[keys[k]] |-> keys[k]]])
    IN  [n \in 1..Len(names) |->
            [id |-> Uuid(seed, n), name |-> names[n], needsWater |-> FALSE]]

ParsePaliaPlannerUrl(saveCode, seed) ==
    LET sections == Split(saveCode, "_") IN
    IF Len(sections) < 3
    THEN Failure("Error", "Invalid save code format - insufficient sections.")
    ELSE IF ~StartsWith(sections[1], <<"v">>)
    THEN Failure("Error", "Invalid save code format - missing version prefix.")
    ELSE IF ~StartsWith(sections[3], <<"C", "R", "-">>)
    THEN Failure("Error", "Invalid save code format - crops section should start with CR-.")
    ELSE
    LET rows         == Split(SubSeq(sections[3], 4, Len(sections[3])), "-")
        allCropTiles == Concat([r \in 1..Len(rows) |-> ParseCropCodesFromPlot(rows[r])])
        cropCounts   == CountCropsCorrectly(allCropTiles)
        keys         == SelectSeq(DistinctInOrder(allCropTiles, <<>>),
                                  LAMBDA c : c \in DOMAIN cropCounts)
    IN  [kind |-> "ok", plants |-> PlantsOf(keys, cropCounts, seed)]

ParseSaveCode(saveCode, seed) ==
    LET parsed == ParseGridData(saveCode, seed) IN
    IF parsed.kind = "ok"
    THEN LET cropBreakdown == parsed.data.cropSummary.cropBreakdown
         IN  [ kind   |-> "ok",
               plants |-> PlantsOf(BreakdownKeys(parsed.data),
                                   [c \in DOMAIN cropBreakdown |-> cropBreakdown[c].total],
                                   seed) ]
    ELSE \* "Fallback to original implementation"
         ParsePaliaPlannerUrl(saveCode, seed)

CompatInit ==
    /\ input \in SaveCodes
    /\ ~StartsWith(input, <<"h", "t", "t", "p">>)
    /\ parseResult = NotCalled
    /\ ClockIdle /\ SummaryIdle /\ StoreIdle

\* await parseSaveCode(input)
CallParseSaveCode ==
    /\ parseResult = NotCalled
    /\ \E seed \in Seeds : parseResult' = ParseSaveCode(input, seed)
    /\ UNCHANGED <<input, clockVars, summaryVars, storeVars, otherVars>>

\* await parsePaliaPlannerUrl(input), its outcome kept in lastResult
CallParsePaliaPlannerUrl ==
    /\ lastResult = NotCalled
    /\ \E seed \in Seeds : lastResult' = ParsePaliaPlannerUrl(input, seed)
    /\ UNCHANGED <<parseVars, clockVars, summaryVars, storeVars, exportedJson,
                   migrationVars, historyVars>>

CompatNext == CallParseSaveCode \/ CallParsePaliaPlannerUrl

SpecCompat == CompatInit /\ [][CompatNext]_vars

\* The number of Plant objects named name.
PlantsNamed(plants, name) == Cardinality({ i \in 1..Len(plants) : plants[i].name = name })

\* C15: on every input on which parsePaliaPlannerUrl succeeds, parseSaveCode
\* returns the same number of Plant objects per crop name, and parseSaveCode
\* fails exactly on the inputs on which parsePaliaPlannerUrl fails.
C15_BackwardCompatible ==
    (parseResult # NotCalled /\ lastResult # NotCalled) =>
        /\ (parseResult.kind # "ok") <=> (lastResult.kind # "ok")
        /\ lastResult.kind = "ok" =>
              /\ parseResult.kind = "ok"
              /\ \A name \in SizedCrops :
                    PlantsNamed(parseResult.plants, name)
                        = PlantsNamed(lastResult.plants, name)

\* The two parsers fail on the same inputs.
C15_SameFailures ==
    (parseResult # NotCalled /\ lastResult # NotCalled) =>
        ((parseResult.kind # "ok") <=> (lastResult.kind # "ok"))

(***************************************************************************)
(* Migration of the legacy data: MigrationService, MigrationBanner         *)
(***************************************************************************)

\* legacyStorage holds the two legacy localStorage items, trackedCrops when
\* the browser has that item and cropWateringState (NoItem when it has
\* not); it is NoItem when both are absent.
HasLegacyData ==
    /\ legacyStorage # NoItem
    /\ ("trackedCrops" \in DOMAIN legacyStorage \/ legacyStorage.cropWateringState # NoItem)

HasUnifiedData == unifiedStorage # NoItem

\* MigrationService.extractLegacyData(), NoItem for null. The stored
\* items are well-typed JSON.
ExtractLegacyData ==
    IF legacyStorage = NoItem THEN NoItem
    ELSE LET legacyCrops == IF "trackedCrops" \in DOMAIN legacyStorage
                            THEN legacyStorage.trackedCrops ELSE <<>>
         IN  IF Len(legacyCrops) = 0 /\ legacyStorage.cropWateringState = NoItem
             THEN NoItem
             ELSE [ trackedCrops      |-> legacyCrops,
                    cropWateringState |-> legacyStorage.cropWateringState ]

\* validateMigrationSafety().canMigrate, localStorage being available
CanMigrate == ~HasUnifiedData /\ ExtractLegacyData # NoItem

\* migrationUtils.getMigrationStatus()
GetMigrationStatus ==
    IF ~HasLegacyData THEN "not-needed"
    ELSE IF HasUnifiedData THEN "completed"
    ELSE IF ~CanMigrate THEN "blocked"
    ELSE "available"

\* What the banner's handlers leave alone.
BannerFrame ==
    /\ UNCHANGED <<clockVars, parseVars, summaryVars, exportedJson>>
    /\ HistoryEffect

\* The status effect of MigrationBanner, run once after it is mounted.
BannerCheckStatus ==
    /\ ~migrationBanner.checked
    /\ migrationBanner' = [ checked    |-> TRUE,
                            showBanner |-> GetMigrationStatus = "available" ]
    /\ UNCHANGED <<storeVars, lastResult, legacyStorage>>
    /\ BannerFrame

\* handleMigrate: "Import Data" of the banner.
HandleMigrate ==
    /\ migrationBanner.showBanner
    /\ ExtractLegacyData # NoItem
    /\ ImportFromLegacyDataStore(ExtractLegacyData)
    /\ lastResult' = [ op     |-> "importFromLegacyData",
                       result |-> MigrateLegacyData(ExtractLegacyData) ]
    /\ legacyStorage' = NoItem
    /\ migrationBanner' = [migrationBanner EXCEPT !.showBanner = FALSE]
    /\ BannerFrame

\* handleSkip
HandleSkip ==
    /\ migrationBanner.showBanner
    /\ migrationBanner' = [migrationBanner EXCEPT !.showBanner = FALSE]
    /\ UNCHANGED <<storeVars, lastResult, legacyStorage>>
    /\ BannerFrame

\* What a browser that ran the earlier version of the tracker holds: two
\* crops with one of them watered, one crop without watering state, an
\* empty crop list, and a watering state without crop list.
LegacyStores ==
    { [trackedCrops |-> <<"Apple", "Tomato">>,
       cropWateringState |-> [watered |-> ("Tomato" :> TRUE), lastResetDay |-> <<1, 1>>]],
      [trackedCrops |-> <<"Tomato">>, cropWateringState |-> NoItem],
      [trackedCrops |-> <<>>, cropWateringState |-> NoItem],
      [cropWateringState |-> [watered |-> ("Tomato" :> FALSE), lastResetDay |-> <<1, 1>>]] }

\* The instants of the migration runs: 00:00 and 06:00 of one in-game day.
MigrationInstants == { T0, T0 + 6 * PalianHourMs }

\* An app start with legacy data in storage and no unified data.
MigrationInit ==
    /\ currentTime = T0
    /\ timeData = TimeDataOf(T0)
    /\ FreshStore
    /\ unifiedStorage = NoItem
    /\ layoutStorage = <<>>
    /\ pending = <<>>
    /\ lastResetCycle = NeverReset
    /\ lastResult = NotCalled
    /\ exportedJson = NoItem
    /\ legacyStorage \in LegacyStores
    /\ migrationBanner = BannerMounting
    /\ cycleWateringState = HistoryOff
    /\ ParseIdle
    /\ SummaryIdle

\* The two mount effects (the store's initialisation and the banner's
\* status check) in either order, then the user and the clock.
MigrationNext ==
    \/ InitializeUnifiedStore
    \/ BannerCheckStatus
    \/ HandleMigrate
    \/ HandleSkip
    \/ \E t \in MigrationInstants : ClockSample(t)
    \/ \E cropType \in CropTypes : AddCropManually(cropType)
    \/ \E cropType \in CropTypes : ToggleCropWatered(cropType)

SpecMigration == MigrationInit /\ [][MigrationNext]_vars

C17_MigrationKeepsUnifiedData ==
    [][ HandleMigrate =>
          \A i \in 1..Len(trackedCrops) :
              \E j \in 1..Len(trackedCrops') :
                  trackedCrops'[j].cropType = trackedCrops[i].cropType ]_vars

\* C18: on an app start with (valid) legacy data in storage and no unified
\* data, the banner's status check finds the migration 'available' and
\* offers the banner, whether it runs before or after initializeUnifiedStore.
C18_BannerOfferedInAnyOrder ==
    [][ (BannerCheckStatus /\ ExtractLegacyData # NoItem)
        => migrationBanner'.showBanner ]_vars

\* A saveLayout(saveCode, ...) step whose save code fails to parse.
UnparseableSave(saveCode) ==
    /\ \A seed \in Seeds : ParseGridData(saveCode, seed).kind # "ok"
    /\ lastResult'.op = "saveLayout"
    /\ \E options \in SaveOptions : SaveLayout(saveCode, "layout", options, QuotaLayouts)

\* C19: saveLayout called with a save code that fails to parse returns
\* success = false with error type INVALID_SAVE_CODE and leaves the stored
\* layouts unchanged.
C19_InvalidSaveCodeReported ==
    [][ \A saveCode \in ServiceCodes :
          UnparseableSave(saveCode) =>
              /\ ~lastResult'.result.success
              /\ lastResult'.result.error.type = "INVALID_SAVE_CODE"
              /\ layoutStorage' = layoutStorage ]_vars

\* Such a call does fail and leaves the stored layouts unchanged.
C19_FailedSaveKeepsLayouts ==
    [][ \A saveCode \in ServiceCodes :
          UnparseableSave(saveCode) =>
              /\ ~lastResult'.result.success
              /\ layoutStorage' = layoutStorage ]_vars

(***************************************************************************)
(* The rolling cycle history of App.tsx                                    *)
(***************************************************************************)

\* The instants of the history runs: 06:00 and 12:00 of the in-game day of
\* T0, and 00:00 and 06:00 of the next.
HistoryInstants ==
    { T0 + 6 * PalianHourMs, T0 + 12 * PalianHourMs,
      T0 + HourMs, T0 + HourMs + 6 * PalianHourMs }

\* The App mounted at T0 in a browser without stored data.
HistoryInit ==
    /\ currentTime = T0
    /\ timeData = TimeDataOf(T0)
    /\ FreshStore
    /\ unifiedStorage = NoItem
    /\ layoutStorage = <<>>
    /\ pending = <<>>
    /\ lastResetCycle = NeverReset
    /\ lastResult = NotCalled
    /\ exportedJson = NoItem
    /\ legacyStorage = NoItem
    /\ migrationBanner = BannerMounting
    /\ cycleWateringState = [cycleHistory |-> <<>>]
    /\ ParseIdle
    /\ SummaryIdle

HistoryNext ==
    \/ InitializeUnifiedStore
    \/ \E t \in HistoryInstants : ClockSample(t)
    \/ \E t \in HistoryInstants : Reload(t)
    \/ \E cropType \in CropTypes : AddCropManually(cropType)
    \/ \E cropType \in CropTypes : ToggleCropWatered(cropType)
    \/ WaterAllCrops

SpecHistory == HistoryInit /\ [][HistoryNext]_vars

\* The history entries of the cycle of instant t.
EntriesOf(history, t) ==
    { j \in 1..Len(history) : history[j].cycleId = TotalCycles(t) }

\* C20: an entry of the cycle history with watered = true belongs to a cycle
\* during which, after that cycle's 6 AM reset, every tracked crop was
\* marked watered: the entry of the current cycle is watered only once
\* that cycle's reset has happened, and when the clock enters a new cycle
\* with the crops still watered from the day before, the new cycle is not
\* marked watered.
C20_WateredMeansDoneThisCycle ==
    /\ [](cycleWateringState # HistoryOff =>
            \A j \in EntriesOf(cycleWateringState.cycleHistory, currentTime) :
                cycleWateringState.cycleHistory[j].watered
                    => lastResetCycle = TotalCycles(currentTime))
    /\ [][ ( /\ cycleWateringState # HistoryOff
             /\ TotalCycles(currentTime') # TotalCycles(currentTime) )
           => \A j \in EntriesOf(cycleWateringState'.cycleHistory, currentTime') :
                  ~cycleWateringState'.cycleHistory[j].watered ]_vars

\* The carry-over alone: entering a new cycle never yields a watered entry
\* for it.
C20_NoCarryOver ==
    [][ ( /\ cycleWateringState # HistoryOff
          /\ TotalCycles(currentTime') # TotalCycles(currentTime) )
        => \A j \in EntriesOf(cycleWateringState'.cycleHistory, currentTime') :
               ~cycleWateringState'.cycleHistory[j].watered ]_vars

(***************************************************************************)
(* parseGridData called twice on one save code                             *)
(***************************************************************************)

\* await parseGridData(input) a second time, its outcome kept in lastResult;
\* the uuids of the second call are drawn anew.
CallParseGridDataAgain ==
    /\ parseResult # NotCalled
    /\ lastResult = NotCalled
    /\ \E seed \in Seeds : lastResult' = ParseGridData(input, seed)
    /\ UNCHANGED <<parseVars, clockVars, summaryVars, storeVars, exportedJson,
                   migrationVars, historyVars>>

TwiceNext == CallParseGridData \/ CallParseGridDataAgain

SpecTwice == ParseInit /\ [][TwiceNext]_vars

\* C21: decoding the same save code twice with parseGridData yields
\* structurally identical values (dimensions, active plots, every tile
\* field, crop summary): no random identifier makes the two results differ.
C21_DecodeTwiceIdentical ==
    (parseResult # NotCalled /\ lastResult # NotCalled) => parseResult = lastResult

\* The two results do agree on everything but the tiles: dimensions, active
\* plots and crop summary.
C21_SameAggregates ==
    (parseResult # NotCalled /\ lastResult # NotCalled) =>
        /\ parseResult.kind = lastResult.kind
        /\ parseResult.kind = "ok" =>
              /\ parseResult.data.dimensions = lastResult.data.dimensions
              /\ parseResult.data.activePlots = lastResult.data.activePlots
              /\ parseResult.data.cropSummary = lastResult.data.cropSummary

(***************************************************************************)
(* The period of the day over whole in-game days                           *)
(***************************************************************************)

\* The number of half in-game hours sampled after T0.
PeriodSamples == 120

\* Every half in-game hour from T0 on.
PeriodInstants == { T0 + k * (PalianHourMs \div 2) : k \in 0..PeriodSamples }

PeriodInit ==
    /\ currentTime = T0
    /\ timeData = TimeDataOf(T0)
    /\ ParseIdle /\ SummaryIdle /\ StoreIdle

\* setCurrentTime(Date.now()) and the useMemo, at a later half hour.
SampleHalfHour ==
    /\ \E t \in PeriodInstants :
          /\ t > currentTime
          /\ currentTime' = t
    /\ timeData' = TimeDataOf(currentTime')
    /\ UNCHANGED <<parseVars, summaryVars, storeVars, otherVars>>

PeriodNext == SampleHalfHour

SpecPeriod == PeriodInit /\ [][PeriodNext]_vars

\* C22: for every hour in 0..23 the period is one of four labels, Morning
\* exactly for hours 3..5, Day for 6..17, Evening for 18..20 and Night for
\* 21..23 and 0..2.
C22_PartOfDayRanges ==
    timeData.hours \in 0..23 =>
        /\ timeData.partOfDay \in {"Morning", "Day", "Evening", "Night"}
        /\ (timeData.partOfDay = "Morning") <=> (timeData.hours \in 3..5)
        /\ (timeData.partOfDay = "Day") <=> (timeData.hours \in 6..17)
        /\ (timeData.partOfDay = "Evening") <=> (timeData.hours \in 18..20)
        /\ (timeData.partOfDay = "Night") <=> (timeData.hours \in (21..23) \cup (0..2))

\* The clock has been sampled at an instant of hour 3, the first of Morning.
C22_MorningBegins ==
    /\ currentTime > T0
    /\ timeData.hours = 3
    /\ timeData.partOfDay = "Morning"

(***************************************************************************)
(* loadLayout among the other operations of the LayoutService              *)
(***************************************************************************)

\* layoutService.loadLayout(id), called on the service directly.
CallLoadLayout(id) ==
    /\ lastResult' = [op |-> "loadLayout", id |-> id, result |-> LoadLayout(id)]
    /\ UNCHANGED <<layoutStorage, exportedJson>>
    /\ ServiceFrame

LibraryNext ==
    \/ QuotaNext
    \/ \E id \in ServiceIds : CallLoadLayout(id)

SpecLibrary == ServiceInit /\ [][LibraryNext]_vars

\* The stored layouts with the given id.
StoredWithId(id) ==
    { i \in 1..Len(layoutStorage) : layoutStorage[i].metadata.id = id }

\* C23: loadLayout(id) succeeds and returns the stored layout if and only
\* if a layout with that id is currently stored (saved or imported and not
\* since deleted or cleared); otherwise it returns LAYOUT_NOT_FOUND; and it
\* never modifies storage.
C23_LoadReturnsStored ==
    /\ [][ \A id \in ServiceIds :
             (lastResult'.op = "loadLayout" /\ CallLoadLayout(id)) =>
                 /\ layoutStorage' = layoutStorage
                 /\ lastResult'.result.success <=> (StoredWithId(id) # {})
                 /\ lastResult'.result.success =>
                       /\ Cardinality(StoredWithId(id)) = 1
                       /\ \A i \in StoredWithId(id) :
                             lastResult'.result.data = layoutStorage[i]
                 /\ ~lastResult'.result.success =>
                       lastResult'.result.error.type = "LAYOUT_NOT_FOUND" ]_vars
    /\ [](\A i, j \in 1..Len(layoutStorage) :
             layoutStorage[i].metadata.id = layoutStorage[j].metadata.id => i = j)

\* The second of two stored layouts has been loaded by its id.
C23_SecondLayoutLoaded ==
    /\ lastResult # NotCalled
    /\ lastResult.op = "loadLayout"
    /\ lastResult.result.success
    /\ Len(layoutStorage) = 2
    /\ lastResult.id = layoutStorage[2].metadata.id
    /\ lastResult.result.data = layoutStorage[2]

(***************************************************************************)
(* Placement of the crop-block entries in the tile grid                    *)
(***************************************************************************)

\* The active plots of the dimension block, <<plotRow, plotCol>> from 0, in
\* row-major order.
ActivePlotList(saveCode) ==
    LET rows == PlotRowsOf(saveCode)
        cols == Len(rows[1])
        all  == [p \in 1..(Len(rows) * cols) |-> <<(p - 1) \div cols, (p - 1) % cols>>]
    IN  SelectSeq(all, LAMBDA q : /\ q[2] + 1 <= Len(rows[q[1] + 1])
                                  /\ rows[q[1] + 1][q[2] + 1] = "1")

\* The crop a tile token stands for, null for N and for an unknown code.
CropOfToken(token) ==
    LET code == Split(token, ".")[1]
    IN  IF code \in DOMAIN CROP_MAPPINGS /\ CROP_MAPPINGS[code] # "None"
        THEN CROP_MAPPINGS[code] ELSE Null

\* The fertilizer a tile token stands for, null when it names none.
FertilizerOfToken(token) ==
    LET parts == Split(token, ".")
    IN  IF /\ Len(parts) >= 2
           /\ parts[2] \in DOMAIN FERTILIZER_MAPPINGS
           /\ FERTILIZER_MAPPINGS[parts[2]] # "None"
        THEN FERTILIZER_MAPPINGS[parts[2]] ELSE Null

\* C24: the k-th entry of the crop block (one of 9 tile tokens) is decoded
\* into the k-th active plot in row-major plot order, its i-th token
\* (i in 0..8) written to tile (3*plotRow + i div 3, 3*plotCol + i mod 3);
\* tiles of inactive plots have isActive = false and never receive a crop
\* or fertilizer, and inactive plots consume no entry.
C24_EntriesPlacedRowMajor ==
    (parseResult # NotCalled /\ parseResult.kind = "ok") =>
        LET tiles   == parseResult.data.tiles
            actives == ActivePlotList(input)
            entries == CropRowsOf(input)
        IN  /\ \A k \in 1..Len(actives) :
                  (k <= Len(entries) /\ Len(MatchCropCodes(entries[k])) = 9) =>
                      \A i \in 0..8 :
                          LET tile  == tiles[3 * actives[k][1] + (i \div 3) + 1]
                                            [3 * actives[k][2] + (i % 3) + 1]
                              token == MatchCropCodes(entries[k])[i + 1]
                          IN  /\ tile.isActive
                              /\ tile.cropType = CropOfToken(token)
                              /\ tile.fertilizerType = FertilizerOfToken(token)
            /\ \A r \in 1..Len(tiles) : \A c \in 1..Len(tiles[r]) :
                  (\A k \in 1..Len(actives) :
                       actives[k] # <<(r - 1) \div 3, (c - 1) \div 3>>)
                  => /\ ~tiles[r][c].isActive
                     /\ tiles[r][c].cropType = Null
                     /\ tiles[r][c].fertilizerType = Null

\* A garden of 2x2 plots with two of them inactive has been decoded: the
\* first entry (four blueberry tiles, then tomatoes) lies in plot (0,0) and
\* the second entry (tomatoes) in plot (1,1), the second active plot.
C24_SecondEntryInSecondActivePlot ==
    /\ parseResult # NotCalled
    /\ parseResult.kind = "ok"
    /\ Len(parseResult.data.tiles) = 6
    /\ ~parseResult.data.activePlots[1][2]
    /\ parseResult.data.tiles[1][1].cropType = "Blueberry"
    /\ parseResult.data.tiles[2][1].cropType = "Blueberry"
    /\ parseResult.data.tiles[2][2].cropType = "Tomato"
    /\ parseResult.data.tiles[4][4].cropType = "Tomato"
    /\ parseResult.data.tiles[1][4].cropType = Null

(***************************************************************************)
(* Tokenization of a plot string written tile by tile                      *)
(***************************************************************************)

MaxTileCodes == 3

\* A tile as the planner writes it: a crop code of one capital and at most
\* one small letter, and a fertiliser code of one capital or none.
WrittenTiles ==
    { [crop |-> <<c>> \o l, fert |-> f] :
          c \in {"T", "C", "N"}, l \in {<<>>, <<"o">>}, f \in {<<>>, <<"N">>} }

\* The code of one written tile: crop code, then '.' and the fertiliser code.
TileCode(tile) ==
    tile.crop \o (IF tile.fert = <<>> THEN <<>> ELSE <<".">> \o tile.fert)

WrittenPlots == UNION { [1..n -> WrittenTiles] : n \in 0..MaxTileCodes }

TokenInit ==
    /\ gridTiles \in WrittenPlots
    /\ input = Concat([k \in 1..Len(gridTiles) |-> TileCode(gridTiles[k])])
    /\ parseResult = NotCalled
    /\ cropSummary = NotCalled
    /\ ClockIdle /\ StoreIdle

\* plotCropString.match(regex), then the split('.') of every token.
CallMatchCropCodes ==
    /\ parseResult = NotCalled
    /\ LET cropCodes == MatchCropCodes(input)
       IN  parseResult' =
               [ cropCodes |-> cropCodes,
                 split     |-> [k \in 1..Len(cropCodes) |->
                                   [cropCode       |-> CropCodeOf(cropCodes[k]),
                                    fertiliserCode |-> FertiliserCodeOf(cropCodes[k])]] ]
    /\ UNCHANGED <<input, clockVars, summaryVars, storeVars, otherVars>>

TokenNext == CallMatchCropCodes

SpecToken == TokenInit /\ [][TokenNext]_vars

\* C25: tokenization inverts concatenation: for any sequence of tile codes
\* (one capital, optionally one small letter, optionally '.' and one capital
\* fertiliser letter) tokenizing their concatenation returns exactly that
\* sequence in order, so the token count is the number of tiles written, and
\* splitting a token on '.' returns its crop code and its fertiliser code.
C25_TokenizeInvertsConcat ==
    parseResult # NotCalled =>
        /\ Len(parseResult.cropCodes) = Len(gridTiles)
        /\ \A k \in 1..Len(gridTiles) :
              /\ parseResult.cropCodes[k] = TileCode(gridTiles[k])
              /\ parseResult.split[k].cropCode = gridTiles[k].crop
              /\ parseResult.split[k].fertiliserCode = gridTiles[k].fert

\* 'Co.NNT.N' has been tokenized: a fertilised two-letter code, a bare N,
\* and a fertilised one-letter code.
C25_FertilisedThenBare ==
    /\ parseResult # NotCalled
    /\ input = <<"C", "o", ".", "N", "N", "T", ".", "N">>
    /\ Len(parseResult.cropCodes) = 3
    /\ parseResult.split[1].fertiliserCode = <<"N">>
    /\ parseResult.split[2].cropCode = <<"N">>

(***************************************************************************)
(* The cycle history over more cycles than it keeps                        *)
(***************************************************************************)

RollingCycles == 6

\* 06:00 of the in-game day of T0 and of the days after it.
RollingInstants == { T0 + k * HourMs + 6 * PalianHourMs : k \in 0..RollingCycles }

\* Math.round((wateredCycles / 5) * 100)
GetCycleProgress(history) ==
    LET wateredCycles == Cardinality({ j \in 1..Len(history) : history[j].watered })
    IN  (2 * wateredCycles * 100 + 5) \div (2 * 5)

RollingNext ==
    \/ InitializeUnifiedStore
    \/ \E t \in RollingInstants : ClockSample(t)
    \/ \E t \in RollingInstants : Reload(t)
    \/ AddCropManually("Tomato")
    \/ ToggleCropWatered("Tomato")
    \/ WaterAllCrops

SpecRolling == HistoryInit /\ [][RollingNext]_vars

\* C26: starting from an empty cycle history, after any sequence of clock
\* samples and watering actions the history holds at most 5 entries, all
\* with distinct cycleIds, ordered newest first, so the displayed cycle
\* progress never exceeds 100%.
C26_HistoryBounded ==
    LET history == cycleWateringState.cycleHistory
    IN  /\ Len(history) <= 5
        /\ \A i, j \in 1..Len(history) :
              i < j => history[i].cycleId > history[j].cycleId
        /\ GetCycleProgress(history) <= 100

\* Five watered cycles are shown, and the cycle of T0, watered too, is no
\* longer among them.
C26_FullHistoryRolledOver ==
    LET history == cycleWateringState.cycleHistory
    IN  /\ Len(history) = 5
        /\ \A j \in 1..5 : history[j].watered
        /\ history[5].cycleId > TotalCycles(T0 + 6 * PalianHourMs)
        /\ GetCycleProgress(history) = 100

(***************************************************************************)
(* The daily reset within one in-game day and across midnight              *)
(***************************************************************************)

\* 06:00 and 12:00 of the in-game day of T0, and 00:00, 05:00 and 06:00 of
\* the next.
ResetInstants ==
    { T0 + 6 * PalianHourMs, T0 + 12 * PalianHourMs,
      T0 + HourMs, T0 + HourMs + 5 * PalianHourMs, T0 + HourMs + 6 * PalianHourMs }

ResetNext ==
    \/ InitializeUnifiedStore
    \/ \E t \in ResetInstants : ClockSample(t)
    \/ \E t \in ResetInstants : Reload(t)
    \/ \E cropType \in CropTypes : AddCropManually(cropType)
    \/ \E cropType \in CropTypes : ToggleCropWatered(cropType)
    \/ WaterAllCrops

SpecReset == StoreInit /\ [][ResetNext]_vars

\* C27: the daily reset fires at most once per in-game day: once it has
\* fired in an in-game day, a later clock sample of that day leaves the
\* tracked crops (the watered ones included) and the reset day as they are;
\* so does a clock sample whose hour is below 6, and no reset fires at an
\* instant whose hour is below 6.
C27_ResetOncePerDay ==
    /\ [][ (isInitialized /\ isInitialized' /\ currentTime' # currentTime)
           => ( ( \/ lastResetCycle = TotalCycles(currentTime')
                  \/ Hours(currentTime') < 6 )
                => /\ trackedCrops' = trackedCrops
                   /\ dailyWateringState' = dailyWateringState
                   /\ lastResetCycle' = lastResetCycle ) ]_vars
    /\ [][ lastResetCycle' # lastResetCycle
           => (isInitialized' /\ Hours(currentTime') >= 6) ]_vars

\* 05:00 of the second in-game day: the crops watered after the reset of
\* the first day are still watered.
C27_StillWateredBeforeSix ==
    /\ isInitialized
    /\ currentTime = T0 + HourMs + 5 * PalianHourMs
    /\ lastResetCycle = TotalCycles(T0 + 6 * PalianHourMs)
    /\ Len(trackedCrops) > 0
    /\ \A i \in 1..Len(trackedCrops) : trackedCrops[i].isWatered

(***************************************************************************)
(* importPlantsFromGarden and the crops already tracked                    *)
(***************************************************************************)

\* The number of imported plants of a crop type.
ImportedCount(plants, cropType) ==
    Cardinality({ i \in 1..Len(plants) : plants[i].name = cropType })

\* The crop types of the import that are not tracked yet.
NewTypes(crops, plants) ==
    { plants[i].name : i \in 1..Len(plants) }
        \ { crops[i].cropType : i \in 1..Len(crops) }

\* C28: importPlantsFromGarden(plants) never removes a tracked crop and
\* never changes isWatered: a crop type already tracked keeps its isWatered
\* value while its source becomes 'import' and its totalCount becomes the
\* number of imported plants of that type; a crop type not in the import is
\* left entirely unchanged; a crop type new to the store is added unwatered
\* with source 'import'.  (It holds in SpecTracker, where every crop type
\* has one entry; in Spec a legacy import can leave two entries of a type,
\* and only the first of them is refreshed.)
C28_ImportKeepsTrackedCrops ==
    [][ \A plants \in PlantLists :
          ImportPlantsFromGarden(plants) =>
            /\ Len(trackedCrops') = Len(trackedCrops)
                                    + Cardinality(NewTypes(trackedCrops, plants))
            /\ \A i \in 1..Len(trackedCrops) :
                  /\ trackedCrops'[i].cropType = trackedCrops[i].cropType
                  /\ trackedCrops'[i].isWatered = trackedCrops[i].isWatered
                  /\ IF ImportedCount(plants, trackedCrops[i].cropType) > 0
                     THEN /\ trackedCrops'[i].source = "import"
                          /\ trackedCrops'[i].totalCount =
                                 ImportedCount(plants, trackedCrops[i].cropType)
                     ELSE trackedCrops'[i] = trackedCrops[i]
            /\ \A cropType \in NewTypes(trackedCrops, plants) :
                  \E i \in (Len(trackedCrops) + 1)..Len(trackedCrops') :
                      /\ trackedCrops'[i].cropType = cropType
                      /\ trackedCrops'[i].source = "import"
                      /\ ~trackedCrops'[i].isWatered
                      /\ trackedCrops'[i].totalCount = ImportedCount(plants, cropType)
      ]_vars

\* The watered tomato entry now counts the two imported tomato plants, and
\* the apple of the same import has been added unwatered behind it.
C28_WateredCropRefreshedByImport ==
    /\ Len(trackedCrops) = 2
    /\ trackedCrops[1].cropType = "Tomato"
    /\ trackedCrops[1].isWatered
    /\ trackedCrops[1].source = "import"
    /\ trackedCrops[1].totalCount = 2
    /\ trackedCrops[2].cropType = "Apple"
    /\ trackedCrops[2].source = "import"
    /\ ~trackedCrops[2].isWatered

====
